---- MODULE Spec2Model ----
(***************************************************************************)
(* A model of the image annotation application: the annotation store       *)
(* (core/annotation_manager.py), the annotation and image records          *)
(* (core/models.py), the image collection and its cursor                   *)
(* (core/image_manager.py) and the main window's handlers that tie them    *)
(* together (ui/main_window.py).                                           *)
(*                                                                         *)
(* Python values are modelled as follows.                                  *)
(*   - Optional[T] is a tuple: <<>> is None, <<v>> is the value v.         *)
(*   - str(uuid.uuid4()) is a fresh natural number: the k-th Annotation    *)
(*     constructed that is kept gets the id k, the k-th image the id k.    *)
(*     An Annotation object is addressed in the heap by that same number.  *)
(*   - datetime.now() returns any time not before the last one read.       *)
(*   - a str is a tuple of one-character strings.                          *)
(***************************************************************************)
EXTENDS Integers, Sequences, FiniteSets, TLC

VARIABLES
    _annotations,        \* AnnotationManager._annotations: id -> Annotation object (heap address)
    _validation_enabled, \* AnnotationManager._validation_enabled
    heap,                \* the live Annotation objects, by address
    nextAnnId,           \* the next Annotation id uuid4 hands out
    clock,               \* the last value datetime.now() returned
    _images,             \* ImageManager._images: id -> ImageMetadata
    _image_order,        \* ImageManager._image_order
    _current_index,      \* ImageManager._current_index
    nextImageId,         \* the next ImageMetadata id uuid4 hands out
    _base_path,          \* ImageManager._base_path
    _labels,             \* LabelManager._labels: label id -> label name
    size,                \* ImageCanvas.size(): the widget's size
    _pixmap,             \* ImageCanvas._pixmap: None or the pixmap's size
    _scaled_pixmap,      \* ImageCanvas._scaled_pixmap: None or the scaled pixmap's size
    _image_offset_x,     \* ImageCanvas._image_offset_x
    _image_offset_y,     \* ImageCanvas._image_offset_y
    _scale_factor,       \* ImageCanvas._scale_factor
    _current_annotations,     \* ImageCanvas._current_annotations
    _drawing_mode,       \* ImageCanvas._drawing_mode
    _is_drawing,         \* ImageCanvas._is_drawing
    _start_point,        \* ImageCanvas._start_point
    _current_point,      \* ImageCanvas._current_point
    _selected_annotation_id,  \* ImageCanvas._selected_annotation_id
    emitted,             \* the signals the canvas emitted in the last handler
    files,               \* the files on disk: path -> content
    last,                \* what the last operation was and what it returned
    arg,                 \* the arguments of the last operation that took effect,
                         \* or the input of the function under check
    out                  \* the output of the function under check

storeVars == <<_annotations, _validation_enabled, heap, nextAnnId, clock>>
imageVars == <<_images, _image_order, _current_index, nextImageId>>
geometryVars == <<size, _pixmap, _scaled_pixmap, _image_offset_x, _image_offset_y,
                  _scale_factor>>
drawingVars == <<_drawing_mode, _is_drawing, _start_point, _current_point>>
canvasVars == <<geometryVars, drawingVars, _current_annotations,
                _selected_annotation_id, emitted>>
vars == <<_annotations, _validation_enabled, heap, nextAnnId, clock, _images,
          _image_order, _current_index, nextImageId, _base_path, _labels, canvasVars,
          files, last, arg, out>>

(***************************************************************************)
(* Bounds of the model.                                                    *)
(***************************************************************************)
MaxAnn == 2
MaxClock == 1
MaxImages == 3
MaxAppImages == 2

(***************************************************************************)
(* Python values.                                                          *)
(***************************************************************************)
None == <<>>
Some(v) == <<v>>
IsNone(o) == o = <<>>
Opt(S) == {None} \cup {Some(v) : v \in S}

Min(a, b) == IF a <= b THEN a ELSE b
Max(a, b) == IF a >= b THEN a ELSE b

\* The image of a dict's keys in ascending order (insertion order, as the
\* keys are handed out in ascending order and never reused).
RECURSIVE SortedSeq(_)
SortedSeq(S) ==
    IF S = {} THEN <<>>
    ELSE LET m == CHOOSE x \in S : \A y \in S : x <= y
         IN <<m>> \o SortedSeq(S \ {m})

\* A dict without the key k (del d[k]).
Without(d, k) == [x \in DOMAIN d \ {k} |-> d[x]]

\* A dict with d[k] = v (insertion, or replacement of the value of k).
With(d, k, v) == [x \in DOMAIN d \cup {k} |-> IF x = k THEN v ELSE d[x]]

\* str.strip(): the string without its leading and trailing whitespace.
IsSpace(c) == c \in {" ", "\t", "\n"}
RECURSIVE LStrip(_)
LStrip(s) == IF s # <<>> /\ IsSpace(Head(s)) THEN LStrip(Tail(s)) ELSE s
RECURSIVE RStrip(_)
RStrip(s) ==
    IF s # <<>> /\ IsSpace(s[Len(s)]) THEN RStrip(SubSeq(s, 1, Len(s) - 1)) ELSE s
Strip(s) == RStrip(LStrip(s))

(***************************************************************************)
(* core/models.py                                                          *)
(***************************************************************************)
BoundingBox(x, y, width, height) ==
    [x |-> x, y |-> y, width |-> width, height |-> height]

Annotation(id, bounding_box, label_id, label_name, image_id, created_at, modified_at) ==
    [id |-> id, bounding_box |-> bounding_box, label_id |-> label_id,
     label_name |-> label_name, image_id |-> image_id,
     created_at |-> created_at, modified_at |-> modified_at]

\* update_box writing created_at where it should write modified_at.
update_box_created(ann, box, now) ==
    [ann EXCEPT !.bounding_box = Some(box), !.created_at = now]

\* Annotation.update_box: the box and the modification timestamp.
update_box(ann, box, now) ==
    [ann EXCEPT !.bounding_box = Some(box), !.modified_at = now]

\* Annotation.update_label: the label pair and the modification timestamp.
update_label(ann, label_id, label_name, now) ==
    [ann EXCEPT !.label_id = label_id, !.label_name = label_name, !.modified_at = now]

\* ImageMetadata as the image loader returns it: a fresh id, no annotations.
ImageMetadata(id, file_path) ==
    [id |-> id, file_path |-> file_path, annotations |-> <<>>]

\* ImageMetadata.add_annotation
add_annotation(image, annotation) ==
    [image EXCEPT !.annotations = Append(image.annotations, annotation)]

\* ImageMetadata.remove_annotation: the image after the call; the list is
\* rebuilt without the annotations of that id.
remove_annotation(image, annotation_id, h) ==
    [image EXCEPT !.annotations =
        SelectSeq(image.annotations, LAMBDA r : h[r].id # annotation_id)]

(***************************************************************************)
(* core/annotation_manager.py                                              *)
(***************************************************************************)
\* validate_annotation with the box check < 0 where the code has <= 0.
validate_annotation_strict(annotation) ==
    IF annotation.label_id <= 0
    THEN <<FALSE, "Label ID must be positive">>
    ELSE IF annotation.label_name = <<>> \/ Strip(annotation.label_name) = <<>>
    THEN <<FALSE, "Label name cannot be empty">>
    ELSE IF IsNone(annotation.bounding_box)
    THEN <<FALSE, "Bounding box is required">>
    ELSE IF annotation.bounding_box[1].width < 0 \/ annotation.bounding_box[1].height < 0
    THEN <<FALSE, "Bounding box must have positive width and height">>
    ELSE <<TRUE, "">>

\* AnnotationManager.validate_annotation: (is_valid, error_message), the
\* checks in the order the code makes them.
validate_annotation(annotation) ==
    IF annotation.label_id <= 0
    THEN <<FALSE, "Label ID must be positive">>
    ELSE IF annotation.label_name = <<>> \/ Strip(annotation.label_name) = <<>>
    THEN <<FALSE, "Label name cannot be empty">>
    ELSE IF IsNone(annotation.bounding_box)
    THEN <<FALSE, "Bounding box is required">>
    ELSE IF annotation.bounding_box[1].width <= 0 \/ annotation.bounding_box[1].height <= 0
    THEN <<FALSE, "Bounding box must have positive width and height">>
    ELSE <<TRUE, "">>


\* create_annotation entering the annotation in the store before it validates.
create_annotation_early(image_id, box, label_id, label_name, t1, t2) ==
    LET annotation == Annotation(nextAnnId, box, label_id, label_name, image_id, t1, t2)
    IN [raised |-> _validation_enabled /\ ~validate_annotation(annotation)[1],
        annotations |-> With(_annotations, annotation.id, annotation.id),
        heap |-> With(heap, annotation.id, annotation),
        ret |-> annotation.id]

\* create_annotation returning the annotation without entering it in the store.
create_annotation_unstored(image_id, box, label_id, label_name, t1, t2) ==
    LET annotation == Annotation(nextAnnId, box, label_id, label_name, image_id, t1, t2)
    IN IF _validation_enabled /\ ~validate_annotation(annotation)[1]
       THEN [raised |-> TRUE, annotations |-> _annotations, heap |-> heap, ret |-> 0]
       ELSE [raised |-> FALSE, annotations |-> _annotations,
             heap |-> With(heap, annotation.id, annotation), ret |-> annotation.id]

\* AnnotationManager.create_annotation, with t1 and t2 the two readings of
\* datetime.now(): whether it raises ValueError, the store and the heap after
\* the call, and the annotation returned (0 when it raises).
create_annotation(image_id, box, label_id, label_name, t1, t2) ==
    LET annotation == Annotation(nextAnnId, box, label_id, label_name, image_id, t1, t2)
    IN IF _validation_enabled /\ ~validate_annotation(annotation)[1]
       THEN [raised |-> TRUE, annotations |-> _annotations, heap |-> heap, ret |-> 0]
       ELSE [raised |-> FALSE,
             annotations |-> With(_annotations, annotation.id, annotation.id),
             heap |-> With(heap, annotation.id, annotation),
             ret |-> annotation.id]

\* AnnotationManager.get_annotation: the annotation object, or None.
get_annotation(annotation_id) ==
    IF annotation_id \in DOMAIN _annotations THEN Some(_annotations[annotation_id]) ELSE None

\* update_annotation writing the label as soon as label_id is supplied.
update_annotation_anylabel(annotation_id, box, label_id, label_name, t1, t2) ==
    IF IsNone(get_annotation(annotation_id))
    THEN [ret |-> FALSE, heap |-> heap, clock |-> clock]
    ELSE LET ref == get_annotation(annotation_id)[1]
             a0 == heap[ref]
             a1 == IF ~IsNone(box) THEN update_box(a0, box[1], t1) ELSE a0
             c1 == IF ~IsNone(box) THEN t1 ELSE clock
             some == ~IsNone(label_id)
             name == IF IsNone(label_name) THEN a1.label_name ELSE label_name[1]
             a2 == IF some THEN update_label(a1, label_id[1], name, t2) ELSE a1
             c2 == IF some THEN t2 ELSE c1
         IN [ret |-> TRUE, heap |-> [heap EXCEPT ![ref] = a2], clock |-> c2]

\* AnnotationManager.update_annotation, with t1 the time update_box reads and
\* t2 the time update_label reads: the value returned, the heap and the clock
\* after the call.
update_annotation(annotation_id, box, label_id, label_name, t1, t2) ==
    IF IsNone(get_annotation(annotation_id))
    THEN [ret |-> FALSE, heap |-> heap, clock |-> clock]
    ELSE LET ref == get_annotation(annotation_id)[1]
             a0 == heap[ref]
             a1 == IF ~IsNone(box) THEN update_box(a0, box[1], t1) ELSE a0
             c1 == IF ~IsNone(box) THEN t1 ELSE clock
             both == ~IsNone(label_id) /\ ~IsNone(label_name)
             a2 == IF both THEN update_label(a1, label_id[1], label_name[1], t2) ELSE a1
             c2 == IF both THEN t2 ELSE c1
         IN [ret |-> TRUE, heap |-> [heap EXCEPT ![ref] = a2], clock |-> c2]

\* delete_annotation returning True whether or not the id was there.
delete_annotation_true(annotation_id) ==
    [ret |-> TRUE, annotations |-> Without(_annotations, annotation_id)]

\* AnnotationManager.delete_annotation: the value returned and the store after.
delete_annotation(annotation_id) ==
    IF annotation_id \in DOMAIN _annotations
    THEN [ret |-> TRUE, annotations |-> Without(_annotations, annotation_id)]
    ELSE [ret |-> FALSE, annotations |-> _annotations]

\* AnnotationManager.get_annotations_for_image over a store and a heap: the
\* annotations of the image, in the dict's insertion order.
annotations_for_image(annotations, h, image_id) ==
    SortedSeq({k \in DOMAIN annotations : h[annotations[k]].image_id = image_id})

get_annotations_for_image(image_id) == annotations_for_image(_annotations, heap, image_id)

\* The objects Python keeps alive: those the store or an image's list refers to.
RangeOf(f) == {f[x] : x \in DOMAIN f}
Reachable(annotations, images) ==
    RangeOf(annotations) \cup UNION {RangeOf(images[i].annotations) : i \in DOMAIN images}
Collect(h, annotations, images) ==
    [r \in DOMAIN h \cap Reachable(annotations, images) |-> h[r]]

(***************************************************************************)
(* core/image_manager.py                                                   *)
(***************************************************************************)
\* list.remove(x): the list without its first x.
RECURSIVE RemoveFirst(_, _)
RemoveFirst(seq, x) ==
    IF seq = <<>> THEN <<>>
    ELSE IF Head(seq) = x THEN Tail(seq)
    ELSE <<Head(seq)>> \o RemoveFirst(Tail(seq), x)

\* list.index(x): the 0-based position of the first x.
IndexOf(seq, x) == (CHOOSE i \in 1..Len(seq) : seq[i] = x /\ \A j \in 1..(i - 1) : seq[j] # x) - 1

\* add_image making every added image the current one.
add_image_current(file_path, metadata) ==
    LET order == Append(_image_order, metadata.id)
    IN [images |-> With(_images, metadata.id, [metadata EXCEPT !.file_path = file_path]),
        order |-> order,
        index |-> Len(order) - 1,
        ret |-> metadata.id]

\* ImageManager.add_image: the collection, the order and the cursor after the
\* call, and the id returned.
add_image(file_path, metadata) ==
    LET order == Append(_image_order, metadata.id)
    IN [images |-> With(_images, metadata.id, [metadata EXCEPT !.file_path = file_path]),
        order |-> order,
        index |-> IF Len(order) = 1 THEN 0 ELSE _current_index,
        ret |-> metadata.id]

\* remove_image moving the cursor back with the current image when an image
\* before it is removed.
remove_image_following(image_id) ==
    IF image_id \notin DOMAIN _images
    THEN [ret |-> FALSE, images |-> _images, order |-> _image_order, index |-> _current_index]
    ELSE LET order == RemoveFirst(_image_order, image_id)
             i0 == IF IndexOf(_image_order, image_id) < _current_index
                   THEN _current_index - 1
                   ELSE _current_index
             i1 == IF i0 >= Len(order) THEN Max(0, Len(order) - 1) ELSE i0
             i2 == IF Len(order) = 0 THEN -1 ELSE i1
         IN [ret |-> TRUE, images |-> Without(_images, image_id), order |-> order,
             index |-> i2]

\* remove_image without the adjustment of the cursor.
remove_image_noclamp(image_id) ==
    IF image_id \notin DOMAIN _images
    THEN [ret |-> FALSE, images |-> _images, order |-> _image_order, index |-> _current_index]
    ELSE LET order == RemoveFirst(_image_order, image_id)
         IN [ret |-> TRUE, images |-> Without(_images, image_id), order |-> order,
             index |-> IF Len(order) = 0 THEN -1 ELSE _current_index]

\* ImageManager.remove_image: the value returned, and the collection, the
\* order and the cursor after the call.
remove_image(image_id) ==
    IF image_id \notin DOMAIN _images
    THEN [ret |-> FALSE, images |-> _images, order |-> _image_order, index |-> _current_index]
    ELSE LET order == RemoveFirst(_image_order, image_id)
             i1 == IF _current_index >= Len(order)
                   THEN Max(0, Len(order) - 1)
                   ELSE _current_index
             i2 == IF Len(order) = 0 THEN -1 ELSE i1
         IN [ret |-> TRUE, images |-> Without(_images, image_id), order |-> order,
             index |-> i2]

\* ImageManager.get_current_image over a collection, an order and a cursor:
\* the id of the image object returned, or None.
current_image(images, order, index) ==
    IF 0 <= index /\ index < Len(order)
    THEN IF order[index + 1] \in DOMAIN images THEN Some(order[index + 1]) ELSE None
    ELSE None

get_current_image == current_image(_images, _image_order, _current_index)

\* next_image wrapping around at the last image.
next_image_wrap ==
    IF Len(_image_order) = 0
    THEN [ret |-> None, index |-> _current_index]
    ELSE LET i == (_current_index + 1) % Len(_image_order)
         IN [ret |-> current_image(_images, _image_order, i), index |-> i]

\* ImageManager.next_image: the image returned and the cursor after the call.
next_image ==
    IF Len(_image_order) = 0
    THEN [ret |-> None, index |-> _current_index]
    ELSE LET i == IF _current_index < Len(_image_order) - 1
                  THEN _current_index + 1
                  ELSE _current_index
         IN [ret |-> current_image(_images, _image_order, i), index |-> i]

\* ImageManager.previous_image: the image returned and the cursor after the call.
previous_image ==
    IF Len(_image_order) = 0
    THEN [ret |-> None, index |-> _current_index]
    ELSE LET i == IF _current_index > 0 THEN _current_index - 1 ELSE _current_index
         IN [ret |-> current_image(_images, _image_order, i), index |-> i]

\* goto_image taking the position counted from 1 as the cursor.
goto_image_one_based(image_id) ==
    IF image_id \notin DOMAIN _images
    THEN [ret |-> FALSE, index |-> _current_index]
    ELSE IF \E i \in 1..Len(_image_order) : _image_order[i] = image_id
    THEN [ret |-> TRUE, index |-> IndexOf(_image_order, image_id) + 1]
    ELSE [ret |-> FALSE, index |-> _current_index]

\* ImageManager.goto_image: the value returned and the cursor after the call.
goto_image(image_id) ==
    IF image_id \notin DOMAIN _images
    THEN [ret |-> FALSE, index |-> _current_index]
    ELSE IF \E i \in 1..Len(_image_order) : _image_order[i] = image_id
    THEN [ret |-> TRUE, index |-> IndexOf(_image_order, image_id)]
    ELSE [ret |-> FALSE, index |-> _current_index]

(***************************************************************************)
(* core/label_manager.py and utils/constants.py                            *)
(***************************************************************************)
\* LabelManager.set_labels: the registry after the call, a copy of the dict.
set_labels(labels) == labels

\* LabelManager.has_labels
has_labels == DOMAIN _labels # {}

\* LabelManager.get_all_labels
get_all_labels == _labels

\* Minimum width/height of a box the canvas emits.
MIN_BOX_SIZE == 5

(***************************************************************************)
(* The state after construction, and the arguments the operations are      *)
(* called with.                                                            *)
(***************************************************************************)
NoOp == [op |-> "init", id |-> 0, ret |-> 0, ok |-> FALSE, raised |-> FALSE]
Result(op, id, ret, ok, raised) ==
    [op |-> op, id |-> id, ret |-> ret, ok |-> ok, raised |-> raised]

\* AnnotationManager.__init__
InitAnnotationManager(validation_enabled) ==
    /\ _annotations = <<>>
    /\ _validation_enabled = validation_enabled
    /\ heap = <<>>
    /\ nextAnnId = 1
    /\ clock = 0

\* ImageManager.__init__
InitImageManager ==
    /\ _images = <<>>
    /\ _base_path = None
    /\ _image_order = <<>>
    /\ _current_index = -1
    /\ nextImageId = 1

\* LabelManager.__init__
InitLabelManager == _labels = <<>>

\* A disk without files.
InitFiles == files = <<>>

\* ImageCanvas.__init__, in a widget of the given size.
InitImageCanvas(widget_size) ==
    /\ size = widget_size
    /\ _pixmap = None
    /\ _scaled_pixmap = None
    /\ _image_offset_x = 0
    /\ _image_offset_y = 0
    /\ _scale_factor = [num |-> 1, den |-> 1]
    /\ _current_annotations = <<>>
    /\ _drawing_mode = "draw"
    /\ _is_drawing = FALSE
    /\ _start_point = None
    /\ _current_point = None
    /\ _selected_annotation_id = None
    /\ emitted = <<>>

InitRest ==
    /\ last = NoOp
    /\ arg = <<>>
    /\ out = <<>>

\* Boxes, labels and ids the store's operations are called with: a box of
\* width 0 and a box the validation accepts; a label id and a label name the
\* validation rejects, and ones it accepts.
StoreBoxes == {BoundingBox(0, 0, 0, 1), BoundingBox(0, 0, 1, 1)}
LabelIdArgs == {0, 1}
LabelNameArgs == {<<>>, <<"a">>}
ImageIdArgs == {1}
AnnIdArgs == 1..(MaxAnn + 1)
Times(from) == from..MaxClock

(***************************************************************************)
(* The annotation store on its own: calls of AnnotationManager's methods.  *)
(***************************************************************************)
CreateAnnotation ==
    \E image_id \in ImageIdArgs, box \in StoreBoxes,
       label_id \in LabelIdArgs, label_name \in LabelNameArgs :
      \E t1 \in Times(clock) : \E t2 \in Times(t1) :
      \E r \in {create_annotation(image_id, Some(box), label_id, label_name, t1, t2)} :
           /\ r.raised \/ nextAnnId <= MaxAnn
           /\ _annotations' = r.annotations
           /\ heap' = Collect(r.heap, r.annotations, _images)
           /\ nextAnnId' = IF r.raised THEN nextAnnId ELSE nextAnnId + 1
           /\ clock' = t2
           /\ last' = Result("create", 0, r.ret, ~r.raised, r.raised)
           /\ arg' = IF r.raised THEN <<>>
                     ELSE [image_id |-> image_id, box |-> Some(box),
                           label_id |-> label_id, label_name |-> label_name]
           /\ UNCHANGED <<files, _base_path, canvasVars, _validation_enabled, imageVars, _labels, out>>

GetAnnotation ==
    \E annotation_id \in AnnIdArgs :
      \E r \in {get_annotation(annotation_id)} :
           /\ last' = Result("get", annotation_id, IF IsNone(r) THEN 0 ELSE r[1],
                             ~IsNone(r), FALSE)
           /\ arg' = <<>>
           /\ UNCHANGED <<files, _base_path, canvasVars, storeVars, imageVars, _labels, out>>

UpdateAnnotation ==
    \E annotation_id \in AnnIdArgs, box \in Opt(StoreBoxes),
       label_id \in Opt(LabelIdArgs), label_name \in Opt(LabelNameArgs) :
      \E t1 \in IF IsNone(box) THEN {clock} ELSE Times(clock) :
      \E t2 \in IF IsNone(label_id) \/ IsNone(label_name) THEN {t1} ELSE Times(t1) :
      \E r \in {update_annotation(annotation_id, box, label_id, label_name, t1, t2)} :
           /\ heap' = r.heap
           /\ clock' = r.clock
           /\ last' = Result("update", annotation_id, 0, r.ret, FALSE)
           /\ arg' = IF r.ret THEN [box |-> box, label_id |-> label_id,
                                    label_name |-> label_name]
                     ELSE <<>>
           /\ UNCHANGED <<files, _base_path, canvasVars, _annotations, _validation_enabled, nextAnnId,
                          imageVars, _labels, out>>

DeleteAnnotation ==
    \E annotation_id \in AnnIdArgs :
      \E r \in {delete_annotation(annotation_id)} :
           /\ _annotations' = r.annotations
           /\ heap' = Collect(heap, r.annotations, _images)
           /\ last' = Result("delete", annotation_id, 0, r.ret, FALSE)
           /\ arg' = <<>>
           /\ UNCHANGED <<files, _base_path, canvasVars, _validation_enabled, nextAnnId, clock,
                          imageVars, _labels, out>>

InitStore ==
    /\ \E validation_enabled \in BOOLEAN : InitAnnotationManager(validation_enabled)
    /\ InitImageManager
    /\ InitLabelManager
    /\ InitFiles
    /\ InitImageCanvas([width |-> 8, height |-> 6])
    /\ InitRest

NextStore ==
    \/ CreateAnnotation
    \/ GetAnnotation
    \/ UpdateAnnotation
    \/ DeleteAnnotation

SpecStore == InitStore /\ [][NextStore]_vars

(***************************************************************************)
(* The image collection on its own: calls of ImageManager's methods.       *)
(***************************************************************************)
PathArgs == {"/data/a.jpg", "/data/b.png"}
ImageIdPool == 1..(MaxImages + 1)
OptId(o) == IF IsNone(o) THEN 0 ELSE o[1]

AddImage ==
    /\ nextImageId <= MaxImages
    /\ \E file_path \in PathArgs :
       \E r \in {add_image(file_path, ImageMetadata(nextImageId, file_path))} :
           /\ _images' = r.images
           /\ _image_order' = r.order
           /\ _current_index' = r.index
           /\ nextImageId' = nextImageId + 1
           /\ last' = Result("add", 0, r.ret, TRUE, FALSE)
           /\ arg' = [index |-> _current_index]
           /\ UNCHANGED <<files, _base_path, canvasVars, storeVars, _labels, out>>

RemoveImage ==
    \E image_id \in ImageIdPool :
      \E r \in {remove_image(image_id)} :
           /\ _images' = r.images
           /\ _image_order' = r.order
           /\ _current_index' = r.index
           /\ heap' = Collect(heap, _annotations, r.images)
           /\ last' = Result("remove", image_id, 0, r.ret, FALSE)
           /\ arg' = [index |-> _current_index]
           /\ UNCHANGED <<files, _base_path, canvasVars, _annotations, _validation_enabled, nextAnnId, clock,
                          nextImageId, _labels, out>>

NextImage ==
    \E r \in {next_image} :
        /\ _current_index' = r.index
        /\ last' = Result("next", 0, OptId(r.ret), ~IsNone(r.ret), FALSE)
        /\ arg' = [index |-> _current_index]
        /\ UNCHANGED <<files, _base_path, canvasVars, storeVars, _images, _image_order, nextImageId, _labels, out>>

PreviousImage ==
    \E r \in {previous_image} :
        /\ _current_index' = r.index
        /\ last' = Result("previous", 0, OptId(r.ret), ~IsNone(r.ret), FALSE)
        /\ arg' = [index |-> _current_index]
        /\ UNCHANGED <<files, _base_path, canvasVars, storeVars, _images, _image_order, nextImageId, _labels, out>>

GotoImage ==
    \E image_id \in ImageIdPool :
      \E r \in {goto_image(image_id)} :
        /\ _current_index' = r.index
        /\ last' = Result("goto", image_id, 0, r.ret, FALSE)
        /\ arg' = [index |-> _current_index]
        /\ UNCHANGED <<files, _base_path, canvasVars, storeVars, _images, _image_order, nextImageId, _labels, out>>

InitNav ==
    /\ InitAnnotationManager(TRUE)
    /\ InitImageManager
    /\ InitLabelManager
    /\ InitFiles
    /\ InitImageCanvas([width |-> 8, height |-> 6])
    /\ InitRest

NextNav ==
    \/ AddImage
    \/ RemoveImage
    \/ NextImage
    \/ PreviousImage
    \/ GotoImage

SpecNav == InitNav /\ [][NextNav]_vars

(***************************************************************************)
(* ui/main_window.py: the main window's handlers over its annotation       *)
(* store, image collection and label registry, together with calls of     *)
(* LabelManager.set_labels and ImageManager.remove_image.                  *)
(***************************************************************************)
\* The registries the label setup dialog yields: ids from 1, names stripped
\* and not empty.
DialogLabelSets ==
    { (1 :> <<"a">>),
      (1 :> <<"a">>) @@ (2 :> <<"b">>) }

\* The registries set_labels is called with: the dialog's, and, as set_labels
\* takes any dict, one with labels the store's validation rejects.
LabelSets ==
    DialogLabelSets \cup { (0 :> <<"a">>) @@ (1 :> <<" ">>) @@ (2 :> <<"b">>) }

\* The file the user selects in the file dialog.
AppPaths == {"/data/a.jpg"}

\* The boxes the canvas emits with annotation_created.
AppBoxes == {BoundingBox(0, 0, MIN_BOX_SIZE, MIN_BOX_SIZE),
             BoundingBox(2, 3, MIN_BOX_SIZE + 1, MIN_BOX_SIZE)}

\* LabelManager.set_labels, as MainWindow._show_label_setup_dialog calls it
\* with the dialog's labels, or as any other caller does.
SetLabels ==
    \E labels \in LabelSets :
        /\ _labels' = set_labels(labels)
        /\ last' = Result("set_labels", 0, 0, TRUE, FALSE)
        /\ arg' = <<>>
        /\ UNCHANGED <<files, _base_path, canvasVars, storeVars, imageVars, out>>

\* MainWindow.load_images with one file selected. Without labels the label
\* setup dialog is shown first: cancelled (None), nothing is loaded; accepted,
\* its labels are set. A file the loader cannot load is skipped.
LoadImages ==
    /\ nextImageId <= MaxAppImages
    /\ \E file_path \in AppPaths, loads \in BOOLEAN :
       \E dialog \in IF has_labels THEN {None} ELSE Opt(DialogLabelSets) :
       \E labels \in {IF IsNone(dialog) THEN _labels ELSE set_labels(dialog[1])} :
        /\ _labels' = labels
        /\ arg' = <<>>
        /\ IF DOMAIN labels = {} \/ ~loads
           THEN /\ last' = Result("load_images", 0, 0, FALSE, FALSE)
                /\ UNCHANGED <<files, _base_path, canvasVars, storeVars, imageVars, out>>
           ELSE \E r \in {add_image(file_path, ImageMetadata(nextImageId, file_path))} :
                /\ _images' = r.images
                /\ _image_order' = r.order
                /\ _current_index' = r.index
                /\ nextImageId' = nextImageId + 1
                /\ last' = Result("load_images", 0, r.ret, TRUE, FALSE)
                /\ UNCHANGED <<files, _base_path, canvasVars, storeVars, out>>

\* MainWindow._on_annotation_created(box): no current image, or the label
\* dialog is cancelled (accepted = FALSE) or has no label to offer, and nothing
\* happens; else the annotation is created for the current image with the
\* chosen label and appended to the image's list, unless create_annotation
\* raises, which the handler catches.
OnAnnotationCreated ==
    \E box \in AppBoxes, accepted \in BOOLEAN :
        IF IsNone(get_current_image) \/ ~accepted \/ ~has_labels
        THEN /\ last' = Result("annotation_created", 0, 0, FALSE, FALSE)
             /\ arg' = <<>>
             /\ UNCHANGED <<files, _base_path, canvasVars, storeVars, imageVars, _labels, out>>
        ELSE \E label_id \in DOMAIN get_all_labels :
             \E t1 \in Times(clock) : \E t2 \in Times(t1) :
             \E image \in {_images[get_current_image[1]]} :
             \E r \in {create_annotation(image.id, Some(box), label_id,
                                         get_all_labels[label_id], t1, t2)} :
                /\ r.raised \/ nextAnnId <= MaxAnn
                /\ _annotations' = r.annotations
                /\ _images' = IF r.raised THEN _images
                              ELSE [_images EXCEPT ![image.id] = add_annotation(image, r.ret)]
                /\ heap' = Collect(r.heap, r.annotations, _images')
                /\ nextAnnId' = IF r.raised THEN nextAnnId ELSE nextAnnId + 1
                /\ clock' = t2
                /\ last' = Result("annotation_created", image.id, r.ret, ~r.raised, r.raised)
                /\ arg' = [image_id |-> image.id, box |-> Some(box), label_id |-> label_id,
                           label_name |-> get_all_labels[label_id]]
                /\ UNCHANGED <<files, _base_path, canvasVars, _validation_enabled, _image_order, _current_index,
                               nextImageId, _labels, out>>

\* MainWindow._on_annotation_deleted_from_list(annotation_id), with the id of
\* an annotation the list shows (one of the current image's).
OnAnnotationDeletedFromList ==
    /\ ~IsNone(get_current_image)
    /\ \E image \in {_images[get_current_image[1]]} :
       \E i \in 1..Len(image.annotations) :
       \E annotation_id \in {heap[image.annotations[i]].id} :
       \E r \in {delete_annotation(annotation_id)} :
            /\ _images' = [_images EXCEPT ![image.id] =
                              remove_annotation(image, annotation_id, heap)]
            /\ _annotations' = r.annotations
            /\ heap' = Collect(heap, r.annotations, _images')
            /\ last' = Result("deleted_from_list", annotation_id, 0, r.ret, FALSE)
            /\ arg' = <<>>
            /\ UNCHANGED <<files, _base_path, canvasVars, _validation_enabled, nextAnnId, clock, _image_order,
                           _current_index, nextImageId, _labels, out>>

InitApp ==
    /\ InitAnnotationManager(TRUE)
    /\ InitImageManager
    /\ InitLabelManager
    /\ InitFiles
    /\ InitImageCanvas([width |-> 8, height |-> 6])
    /\ InitRest

NextApp ==
    \/ SetLabels
    \/ LoadImages
    \/ OnAnnotationCreated
    \/ OnAnnotationDeletedFromList
    \/ NextImage
    \/ PreviousImage
    \/ RemoveImage

SpecApp == InitApp /\ [][NextApp]_vars

(***************************************************************************)
(* validate_annotation on its own: the annotation is drawn from            *)
(* ValidateInputs, the action applies the function to it.                  *)
(***************************************************************************)
ValidateLabelIds == {-1, 0, 1, 2}
ValidateNames ==
    {<<>>, <<" ">>, <<" ", " ">>, <<"\t">>, <<"a">>, <<" ", "a">>, <<"a", " ">>}
ValidateDims == {-1, 0, 1, 2}
ValidateBoxes == Opt({BoundingBox(0, 0, w, h) : w \in ValidateDims, h \in ValidateDims})
ValidateInputs ==
    {Annotation(1, box, label_id, label_name, 1, 0, 0) :
        box \in ValidateBoxes, label_id \in ValidateLabelIds, label_name \in ValidateNames}

InitValidate ==
    /\ InitAnnotationManager(TRUE)
    /\ InitImageManager
    /\ InitLabelManager
    /\ InitFiles
    /\ InitImageCanvas([width |-> 8, height |-> 6])
    /\ last = NoOp
    /\ arg \in ValidateInputs
    /\ out = <<>>

ValidateAnnotation ==
    /\ last.op = "init"
    /\ out' = validate_annotation(arg)
    /\ last' = Result("validate", 0, 0, validate_annotation(arg)[1], FALSE)
    /\ UNCHANGED <<files, _base_path, canvasVars, storeVars, imageVars, _labels, arg>>

NextValidate == ValidateAnnotation

SpecValidate == InitValidate /\ [][NextValidate]_vars

(***************************************************************************)
(* The label registry on its own: calls of LabelManager.set_labels and     *)
(* add_label, and the label setup dialog of ui/dialogs.py as the main      *)
(* window runs it.                                                         *)
(***************************************************************************)
MaxLabelId == 3
MaxDialogSteps == 2

\* LabelManager.add_label: the registry after the call.
add_label(label_id, label_name) == With(_labels, label_id, label_name)

\* LabelSetupDialog._add_label with the spin box at label_id and the line edit
\* holding text: the dialog's labels after the handler.
_add_label(labels, label_id, text) ==
    LET label_name == Strip(text)
    IN IF label_name = <<>> THEN labels
       ELSE IF label_id \in DOMAIN labels THEN labels
       ELSE IF \E k \in DOMAIN labels : labels[k] = label_name THEN labels
       ELSE With(labels, label_id, label_name)

\* LabelSetupDialog._remove_label with the list item of label_id selected.
_remove_label(labels, label_id) ==
    IF label_id \in DOMAIN labels THEN Without(labels, label_id) ELSE labels

LabelIdPool == 1..MaxLabelId
LabelTexts == {<<"a">>, <<"b">>, <<" ">>, <<" ", "a">>}
DialogSteps ==
    {[kind |-> "add", label_id |-> i, text |-> t] : i \in LabelIdPool, t \in LabelTexts}
        \cup {[kind |-> "remove", label_id |-> i, text |-> <<>>] : i \in LabelIdPool}
DialogRuns == UNION {[1..n -> DialogSteps] : n \in 0..MaxDialogSteps}

\* The dialog's labels after the user's steps, from the labels it opened with.
RECURSIVE dialog_labels(_, _)
dialog_labels(labels, steps) ==
    IF steps = <<>> THEN labels
    ELSE dialog_labels(IF Head(steps).kind = "add"
                       THEN _add_label(labels, Head(steps).label_id, Head(steps).text)
                       ELSE _remove_label(labels, Head(steps).label_id),
                       Tail(steps))

AddLabel ==
    \E label_id \in LabelIdPool, label_name \in {<<"a">>, <<"b">>} :
        /\ _labels' = add_label(label_id, label_name)
        /\ last' = Result("add_label", label_id, 0, TRUE, FALSE)
        /\ arg' = [label_id |-> label_id, label_name |-> label_name]
        /\ UNCHANGED <<files, _base_path, canvasVars, storeVars, imageVars, out>>

\* MainWindow._show_label_setup_dialog: the dialog opens with the registry's
\* labels, the user adds and removes labels, and presses OK (accepted only
\* with at least one label) or Cancel.
ShowLabelSetupDialog ==
    \E steps \in DialogRuns, ok \in BOOLEAN :
    \E labels \in {dialog_labels(get_all_labels, steps)} :
        /\ _labels' = IF ok /\ DOMAIN labels # {} THEN set_labels(labels) ELSE _labels
        /\ last' = Result("label_setup", 0, 0, ok /\ DOMAIN labels # {}, FALSE)
        /\ arg' = <<>>
        /\ UNCHANGED <<files, _base_path, canvasVars, storeVars, imageVars, out>>

InitLabels ==
    /\ InitAnnotationManager(TRUE)
    /\ InitImageManager
    /\ InitLabelManager
    /\ InitFiles
    /\ InitImageCanvas([width |-> 8, height |-> 6])
    /\ InitRest

NextLabels ==
    \/ SetLabels
    \/ AddLabel
    \/ ShowLabelSetupDialog

SpecLabels == InitLabels /\ [][NextLabels]_vars

(***************************************************************************)
(* ui/image_canvas.py: the canvas's geometry. _scale_factor is a float,    *)
(* modelled as the fraction num/den it is computed from; int() of a float  *)
(* truncates toward zero.                                                  *)
(***************************************************************************)
QPoint(x, y) == [x |-> x, y |-> y]
QSize(width, height) == [width |-> width, height |-> height]
Scale(num, den) == [num |-> num, den |-> den]
Abs(a) == IF a < 0 THEN -a ELSE a
Sgn(a) == IF a < 0 THEN -1 ELSE IF a > 0 THEN 1 ELSE 0

\* The quotient a / b (b > 0) truncated toward zero.
TruncDiv(a, b) == IF a >= 0 THEN a \div b ELSE -((-a) \div b)

RECURSIVE GCD(_, _)
GCD(a, b) == IF b = 0 THEN a ELSE GCD(b, a % b)

RECURSIVE IsPow2(_)
IsPow2(n) == n = 1 \/ (n > 1 /\ n % 2 = 0 /\ IsPow2(n \div 2))

\* The float num / den is the exact quotient: the reduced denominator is a
\* power of two.
FloatExact(scale) == IsPow2(scale.den \div GCD(scale.num, scale.den))

\* The values int() can give for a float whose exact value is n / d (d > 0),
\* computed with the float of scale: the truncated quotient, and when the
\* float of scale is rounded and the exact value is a whole number other than
\* zero also the whole number next to it toward zero (the float may fall
\* just short of it).
IntOfQuotient(n, d, scale) ==
    IF FloatExact(scale) \/ n % d # 0 \/ n = 0
    THEN {TruncDiv(n, d)}
    ELSE {TruncDiv(n, d), TruncDiv(n, d) - Sgn(n)}

\* int(a * self._scale_factor) and int(a / self._scale_factor)
IntTimes(a, scale) == IntOfQuotient(a * scale.num, scale.den, scale)
IntOver(a, scale) == IntOfQuotient(a * scale.den, scale.num, scale)

\* QPixmap.scaled(size, KeepAspectRatio): the size of the scaled pixmap; a
\* pixmap that would be empty is the null pixmap, of size 0 x 0.
scaled(pixmap, to) ==
    LET rw == (to.height * pixmap.width) \div pixmap.height
        s == IF rw <= to.width
             THEN QSize(rw, to.height)
             ELSE QSize(to.width, (to.width * pixmap.height) \div pixmap.width)
    IN IF s.width <= 0 \/ s.height <= 0 THEN QSize(0, 0) ELSE s

\* ImageCanvas._update_scaled_pixmap with a pixmap set, in a widget of the
\* size to and with the given scale factor before the call: the scaled
\* pixmap, the offsets and the scale factor after it.
_update_scaled_pixmap(pixmap, to, scale_factor) ==
    LET sp == scaled(pixmap, to)
    IN [pixmap |-> Some(pixmap),
        scaled_pixmap |-> Some(sp),
        offset_x |-> (to.width - sp.width) \div 2,
        offset_y |-> (to.height - sp.height) \div 2,
        scale_factor |-> IF pixmap.width > 0 /\ sp.width > 0
                         THEN Scale(pixmap.width, sp.width)
                         ELSE scale_factor]

\* _create_bounding_box without the clamp of the width and the height.
_create_bounding_box_unclamped(g, start, end) ==
    LET x == Min(start.x, end.x)
        y == Min(start.y, end.y)
        width == Abs(end.x - start.x)
        height == Abs(end.y - start.y)
    IN {BoundingBox(IF IsNone(g.pixmap) THEN x_img ELSE Max(0, Min(x_img, g.pixmap[1].width)),
                    IF IsNone(g.pixmap) THEN y_img ELSE Max(0, Min(y_img, g.pixmap[1].height)),
                    width_img, height_img) :
            x_img \in IntTimes(x - g.offset_x, g.scale_factor),
            y_img \in IntTimes(y - g.offset_y, g.scale_factor),
            width_img \in IntTimes(width, g.scale_factor),
            height_img \in IntTimes(height, g.scale_factor)}

\* ImageCanvas._create_bounding_box over the canvas geometry g: the boxes the
\* call can return for the two corners.
_create_bounding_box(g, start, end) ==
    LET x == Min(start.x, end.x)
        y == Min(start.y, end.y)
        width == Abs(end.x - start.x)
        height == Abs(end.y - start.y)
        clamp(x_img, y_img, width_img, height_img) ==
            IF IsNone(g.pixmap)
            THEN BoundingBox(x_img, y_img, width_img, height_img)
            ELSE LET x1 == Max(0, Min(x_img, g.pixmap[1].width))
                     y1 == Max(0, Min(y_img, g.pixmap[1].height))
                 IN BoundingBox(x1, y1,
                                Min(width_img, g.pixmap[1].width - x1),
                                Min(height_img, g.pixmap[1].height - y1))
    IN {clamp(x_img, y_img, width_img, height_img) :
            x_img \in IntTimes(x - g.offset_x, g.scale_factor),
            y_img \in IntTimes(y - g.offset_y, g.scale_factor),
            width_img \in IntTimes(width, g.scale_factor),
            height_img \in IntTimes(height, g.scale_factor)}

\* _image_to_widget_coords rounding to the nearest pixel above.
_image_to_widget_coords_ceil(g, box) ==
    {BoundingBox(x + 1 + g.offset_x, y + 1 + g.offset_y, width, height) :
        x \in IntOver(box.x, g.scale_factor),
        y \in IntOver(box.y, g.scale_factor),
        width \in IntOver(box.width, g.scale_factor),
        height \in IntOver(box.height, g.scale_factor)}

\* ImageCanvas._image_to_widget_coords over the canvas geometry g: the boxes
\* the call can return.
_image_to_widget_coords(g, box) ==
    {BoundingBox(x + g.offset_x, y + g.offset_y, width, height) :
        x \in IntOver(box.x, g.scale_factor),
        y \in IntOver(box.y, g.scale_factor),
        width \in IntOver(box.width, g.scale_factor),
        height \in IntOver(box.height, g.scale_factor)}

\* The image point of a widget point, as _create_bounding_box and
\* _select_annotation_at_point compute it.
widget_to_image_point(g, point) ==
    {QPoint(x_img, y_img) :
        x_img \in IntTimes(point.x - g.offset_x, g.scale_factor),
        y_img \in IntTimes(point.y - g.offset_y, g.scale_factor)}

\* ImageCanvas._is_point_on_image
_is_point_on_image(g, point) ==
    IF IsNone(g.scaled_pixmap) THEN FALSE
    ELSE /\ g.offset_x <= point.x /\ point.x <= g.offset_x + g.scaled_pixmap[1].width
         /\ g.offset_y <= point.y /\ point.y <= g.offset_y + g.scaled_pixmap[1].height

(***************************************************************************)
(* The canvas's conversions on their own: a pixmap is set in a widget of   *)
(* some size (the first image shown, the scale factor still 1.0), and the  *)
(* action applies a conversion to the points drawn.                        *)
(***************************************************************************)
MaxPix == 3
MaxWidget == 3

PixmapSizes == {QSize(w, h) : w \in 1..MaxPix, h \in 1..MaxPix}
WidgetSizes == {QSize(w, h) : w \in 1..MaxWidget, h \in 1..MaxWidget}
\* Mouse positions: every column of the widget and the ones just left and
\* right of it, in a row above the widget, in one of its rows and below it.
WidgetPoints == {QPoint(x, y) : x \in -1..(MaxWidget + 1), y \in {-1, 1, MaxWidget + 1}}

\* The canvas geometry after set_image(pixmap) on a new canvas.
Geometry(pixmap, to) == _update_scaled_pixmap(pixmap, to, Scale(1, 1))

BoxInputs ==
    {[kind |-> "box", pixmap |-> p, size |-> s, start |-> a, end |-> b] :
        p \in PixmapSizes, s \in WidgetSizes, a \in WidgetPoints, b \in WidgetPoints}
TripInputs ==
    UNION {{[kind |-> "trip", pixmap |-> p, size |-> s, start |-> QPoint(x, y), end |-> QPoint(x, y)] :
               x \in 0..p.width, y \in 0..p.height} :
           p \in PixmapSizes, s \in WidgetSizes}

InitGeometry ==
    /\ InitAnnotationManager(TRUE)
    /\ InitImageManager
    /\ InitLabelManager
    /\ InitFiles
    /\ InitImageCanvas([width |-> 8, height |-> 6])
    /\ last = NoOp
    /\ arg \in BoxInputs \cup TripInputs
    /\ out = <<>>

\* _create_bounding_box(start, end) in the geometry of the input.
CreateBoundingBox ==
    /\ last.op = "init"
    /\ arg.kind = "box"
    /\ \E box \in _create_bounding_box(Geometry(arg.pixmap, arg.size), arg.start, arg.end) :
           out' = [box |-> box]
    /\ last' = Result("create_bounding_box", 0, 0, TRUE, FALSE)
    /\ UNCHANGED <<files, _base_path, canvasVars, storeVars, imageVars, _labels, arg>>

\* An image point converted to the widget by _image_to_widget_coords and its
\* widget point converted back to the image.
RoundTrip ==
    /\ last.op = "init"
    /\ arg.kind = "trip"
    /\ \E g \in {Geometry(arg.pixmap, arg.size)} :
       \E shown \in _image_to_widget_coords(g, BoundingBox(arg.start.x, arg.start.y, 0, 0)) :
       \E back \in widget_to_image_point(g, QPoint(shown.x, shown.y)) :
           out' = [widget |-> QPoint(shown.x, shown.y), image |-> back]
    /\ last' = Result("round_trip", 0, 0, TRUE, FALSE)
    /\ UNCHANGED <<files, _base_path, canvasVars, storeVars, imageVars, _labels, arg>>

NextGeometry ==
    \/ CreateBoundingBox
    \/ RoundTrip

SpecGeometry == InitGeometry /\ [][NextGeometry]_vars

(***************************************************************************)
(* ui/image_canvas.py: the canvas on its own, its public methods and its   *)
(* mouse handlers. A signal emitted is recorded in emitted.                *)
(***************************************************************************)
\* bool(point) of an Optional[QPoint]: None is false, and so is the null
\* point QPoint(0, 0) (PyQt's QPoint.__bool__ is 'not isNull()').
Truthy(point) == ~IsNone(point) /\ ~(point[1].x = 0 /\ point[1].y = 0)

\* BoundingBox.contains_point
contains_point(box, x, y) ==
    /\ box.x <= x /\ x <= box.x + box.width
    /\ box.y <= y /\ y <= box.y + box.height

\* The geometry the canvas holds.
CanvasGeometry ==
    [pixmap |-> _pixmap, scaled_pixmap |-> _scaled_pixmap,
     offset_x |-> _image_offset_x, offset_y |-> _image_offset_y,
     scale_factor |-> _scale_factor]

Signal(name, value) == [signal |-> name, value |-> value]

\* ImageCanvas._select_annotation_at_point: the selected id after the call
\* and the signals emitted, for each image point the conversion can give.
_select_annotation_at_point(point) ==
    {LET hits == {i \in 1..Len(_current_annotations) :
                     /\ ~IsNone(_current_annotations[i].bounding_box)
                     /\ contains_point(_current_annotations[i].bounding_box[1], p.x, p.y)}
     IN IF hits = {}
        THEN [selected |-> None, emitted |-> <<>>]
        ELSE LET annotation == _current_annotations[CHOOSE i \in hits : \A j \in hits : i <= j]
             IN [selected |-> Some(annotation.id),
                 emitted |-> <<Signal("annotation_selected", annotation.id)>>] :
     p \in widget_to_image_point(CanvasGeometry, point)}

\* The pixmaps shown, the sizes the widget takes, the positions of the mouse
\* (the widget's top left corner, points on the image, a point right of and
\* below the widget) and the annotation lists the canvas is given.
CanvasPixmaps == {QSize(8, 6)}
CanvasSizes == {QSize(8, 6), QSize(4, 4)}
CanvasPoints ==
    {QPoint(0, 0), QPoint(1, 1), QPoint(MIN_BOX_SIZE, MIN_BOX_SIZE),
     QPoint(MIN_BOX_SIZE + 1, 1), QPoint(MIN_BOX_SIZE + 1, MIN_BOX_SIZE + 1),
     QPoint(9, 7)}
Buttons == {"left", "right"}
CanvasAnnotations ==
    {<<>>,
     <<Annotation(1, Some(BoundingBox(0, 0, 5, 5)), 1, <<"a">>, 1, 0, 0)>>,
     <<Annotation(1, Some(BoundingBox(0, 0, 5, 5)), 1, <<"a">>, 1, 0, 0),
       Annotation(2, Some(BoundingBox(4, 4, 4, 2)), 1, <<"a">>, 1, 0, 0)>>}

\* ImageCanvas.set_image
SetImage ==
    \E pixmap \in CanvasPixmaps :
    \E g \in {_update_scaled_pixmap(pixmap, size, _scale_factor)} :
        /\ _pixmap' = g.pixmap
        /\ _scaled_pixmap' = g.scaled_pixmap
        /\ _image_offset_x' = g.offset_x
        /\ _image_offset_y' = g.offset_y
        /\ _scale_factor' = g.scale_factor
        /\ emitted' = <<>>
        /\ last' = Result("set_image", 0, 0, TRUE, FALSE)
        /\ arg' = <<>>
        /\ UNCHANGED <<files, _base_path, storeVars, imageVars, _labels, size, drawingVars,
                       _current_annotations, _selected_annotation_id, out>>

\* ImageCanvas.set_annotations
SetAnnotations ==
    \E annotations \in CanvasAnnotations :
        /\ _current_annotations' = annotations
        /\ emitted' = <<>>
        /\ last' = Result("set_annotations", 0, 0, TRUE, FALSE)
        /\ arg' = <<>>
        /\ UNCHANGED <<files, _base_path, storeVars, imageVars, _labels, geometryVars, drawingVars,
                       _selected_annotation_id, out>>

\* ImageCanvas.clear
Clear ==
    /\ _pixmap' = None
    /\ _scaled_pixmap' = None
    /\ _current_annotations' = <<>>
    /\ _selected_annotation_id' = None
    /\ emitted' = <<>>
    /\ last' = Result("clear", 0, 0, TRUE, FALSE)
    /\ arg' = <<>>
    /\ UNCHANGED <<files, _base_path, storeVars, imageVars, _labels, size, _image_offset_x,
                   _image_offset_y, _scale_factor, drawingVars, out>>

\* set_mode changing the mode and leaving a drag in progress.
SetModeKeepingDrag ==
    \E mode \in {"draw", "select"} :
        /\ _drawing_mode' = mode
        /\ emitted' = <<>>
        /\ last' = Result("set_mode", 0, 0, TRUE, FALSE)
        /\ arg' = [mode |-> mode]
        /\ UNCHANGED <<files, _base_path, storeVars, imageVars, _labels, geometryVars,
                       _is_drawing, _start_point, _current_point,
                       _current_annotations, _selected_annotation_id, out>>

\* ImageCanvas.set_mode
SetMode ==
    \E mode \in {"draw", "select"} :
        /\ _drawing_mode' = mode
        /\ _is_drawing' = FALSE
        /\ _start_point' = None
        /\ _current_point' = None
        /\ emitted' = <<>>
        /\ last' = Result("set_mode", 0, 0, TRUE, FALSE)
        /\ arg' = [mode |-> mode]
        /\ UNCHANGED <<files, _base_path, storeVars, imageVars, _labels, geometryVars,
                       _current_annotations, _selected_annotation_id, out>>

\* ImageCanvas.resizeEvent
ResizeEvent ==
    \E to \in CanvasSizes \ {size} :
    \E g \in {IF IsNone(_pixmap) THEN CanvasGeometry
              ELSE _update_scaled_pixmap(_pixmap[1], to, _scale_factor)} :
        /\ size' = to
        /\ _scaled_pixmap' = g.scaled_pixmap
        /\ _image_offset_x' = g.offset_x
        /\ _image_offset_y' = g.offset_y
        /\ _scale_factor' = g.scale_factor
        /\ emitted' = <<>>
        /\ last' = Result("resize", 0, 0, TRUE, FALSE)
        /\ arg' = <<>>
        /\ UNCHANGED <<files, _base_path, storeVars, imageVars, _labels, _pixmap, drawingVars,
                       _current_annotations, _selected_annotation_id, out>>

\* ImageCanvas.mousePressEvent
MousePressEvent ==
    \E button \in Buttons, pos \in CanvasPoints :
        /\ last' = Result("mouse_press", 0, 0, TRUE, FALSE)
        /\ arg' = [button |-> button, pos |-> pos]
        /\ UNCHANGED <<files, _base_path, storeVars, imageVars, _labels, geometryVars,
                       _current_annotations, _drawing_mode, out>>
        /\ IF button # "left" \/ ~_is_point_on_image(CanvasGeometry, pos)
           THEN /\ emitted' = <<>>
                /\ UNCHANGED <<_is_drawing, _start_point, _current_point,
                               _selected_annotation_id>>
           ELSE IF _drawing_mode = "draw"
           THEN /\ _is_drawing' = TRUE
                /\ _start_point' = Some(pos)
                /\ _current_point' = Some(pos)
                /\ emitted' = <<>>
                /\ UNCHANGED _selected_annotation_id
           ELSE IF _drawing_mode = "select"
           THEN \E r \in _select_annotation_at_point(pos) :
                /\ _selected_annotation_id' = r.selected
                /\ emitted' = r.emitted
                /\ UNCHANGED <<_is_drawing, _start_point, _current_point>>
           ELSE /\ emitted' = <<>>
                /\ UNCHANGED <<_is_drawing, _start_point, _current_point,
                               _selected_annotation_id>>

\* ImageCanvas.mouseMoveEvent
MouseMoveEvent ==
    \E pos \in CanvasPoints :
        /\ _current_point' = IF _is_drawing /\ _drawing_mode = "draw"
                             THEN Some(pos) ELSE _current_point
        /\ emitted' = <<>>
        /\ last' = Result("mouse_move", 0, 0, TRUE, FALSE)
        /\ arg' = [button |-> "none", pos |-> pos]
        /\ UNCHANGED <<files, _base_path, storeVars, imageVars, _labels, geometryVars,
                       _current_annotations, _drawing_mode, _is_drawing, _start_point,
                       _selected_annotation_id, out>>

\* ImageCanvas.mouseReleaseEvent
MouseReleaseEvent ==
    \E button \in Buttons, pos \in CanvasPoints :
        /\ last' = Result("mouse_release", 0, 0, TRUE, FALSE)
        /\ arg' = [button |-> button, pos |-> pos]
        /\ UNCHANGED <<files, _base_path, storeVars, imageVars, _labels, geometryVars,
                       _current_annotations, _drawing_mode, _selected_annotation_id, out>>
        /\ IF button = "left" /\ _is_drawing /\ _drawing_mode = "draw"
           THEN /\ _is_drawing' = FALSE
                /\ _start_point' = None
                /\ _current_point' = None
                /\ IF Truthy(_start_point) /\ Truthy(_current_point)
                   THEN \E box \in _create_bounding_box(CanvasGeometry, _start_point[1],
                                                        _current_point[1]) :
                        emitted' = IF box.width >= MIN_BOX_SIZE /\ box.height >= MIN_BOX_SIZE
                                   THEN <<Signal("annotation_created", box)>>
                                   ELSE <<>>
                   ELSE emitted' = <<>>
           ELSE /\ emitted' = <<>>
                /\ UNCHANGED <<_is_drawing, _start_point, _current_point>>

InitCanvas ==
    /\ InitAnnotationManager(TRUE)
    /\ InitImageManager
    /\ InitLabelManager
    /\ InitFiles
    /\ \E widget_size \in CanvasSizes : InitImageCanvas(widget_size)
    /\ InitRest

NextCanvas ==
    \/ SetImage
    \/ SetAnnotations
    \/ Clear
    \/ SetMode
    \/ ResizeEvent
    \/ MousePressEvent
    \/ MouseMoveEvent
    \/ MouseReleaseEvent

SpecCanvas == InitCanvas /\ [][NextCanvas]_vars

(***************************************************************************)
(* core/export_service.py. A path is the tuple of its components; a file   *)
(* on disk holds the rows (CSV) or the document (JSON) written to it:      *)
(* json.dump and json.load of dicts with str keys, lists, ints and strs    *)
(* give back equal values. Numbers in CSV cells are their decimal text.    *)
(***************************************************************************)
\* str(n) of an int
Digit(d) == <<"0", "1", "2", "3", "4", "5", "6", "7", "8", "9">>[d + 1]
RECURSIVE Str(_)
Str(n) ==
    IF n < 0 THEN <<"-">> \o Str(-n)
    ELSE IF n < 10 THEN <<Digit(n)>>
    ELSE Str(n \div 10) \o <<Digit(n % 10)>>

\* sorted(keys) of a list of ints: ascending, by insertion.
RECURSIVE Insert(_, _)
Insert(seq, k) ==
    IF seq = <<>> THEN <<k>>
    ELSE IF k < Head(seq) THEN <<k>> \o seq
    ELSE <<Head(seq)>> \o Insert(Tail(seq), k)
RECURSIVE sorted(_)
sorted(keys) == IF keys = <<>> THEN <<>> ELSE Insert(sorted(Tail(keys)), Head(keys))

\* An ImageMetadata with the fields the loader fills in and the Annotation
\* objects of its list.
LoadedImage(id, file_path, filename, width, height, format, annotations) ==
    [id |-> id, file_path |-> file_path, filename |-> filename, width |-> width,
     height |-> height, format |-> format, annotations |-> annotations]

CsvHeader ==
    <<"image_name", "x", "y", "width", "height", "label_id", "label_name">>

\* The row export_to_csv collects for an annotation of an image, as the
\* DictWriter writes it.
csv_row(image, annotation) ==
    <<image.filename,
      Str(annotation.bounding_box[1].x), Str(annotation.bounding_box[1].y),
      Str(annotation.bounding_box[1].width), Str(annotation.bounding_box[1].height),
      Str(annotation.label_id), annotation.label_name>>

\* csv_rows keeping one row per image.
RECURSIVE csv_rows_first(_)
csv_rows_first(images) ==
    IF images = <<>> THEN <<>>
    ELSE (IF Head(images).annotations = <<>> THEN <<>>
          ELSE <<csv_row(Head(images), Head(images).annotations[1])>>)
         \o csv_rows_first(Tail(images))

\* The rows export_to_csv collects: image by image, annotation by annotation.
RECURSIVE csv_rows(_)
csv_rows(images) ==
    IF images = <<>> THEN <<>>
    ELSE [j \in 1..Len(Head(images).annotations) |->
              csv_row(Head(images), Head(images).annotations[j])]
         \o csv_rows(Tail(images))

\* export_to_csv opening the output file before it looks at the images.
export_to_csv_open_first(images, output_path) ==
    LET rows == csv_rows(images)
    IN [raised |-> Len(images) = 0 \/ rows = <<>>,
        files |-> With(files, output_path,
                       [kind |-> "csv", rows |-> <<CsvHeader>> \o rows])]

\* ExportService.export_to_csv: whether it raises ValueError, and the disk
\* after the call.
export_to_csv(images, output_path) ==
    IF Len(images) = 0
    THEN [raised |-> TRUE, files |-> files]
    ELSE LET rows == csv_rows(images)
         IN IF rows = <<>>
            THEN [raised |-> TRUE, files |-> files]
            ELSE [raised |-> FALSE,
                  files |-> With(files, output_path,
                                 [kind |-> "csv", rows |-> <<CsvHeader>> \o rows])]

\* The "images" list of the COCO document.
coco_images(images) ==
    [image_idx \in 1..Len(images) |->
        [id |-> image_idx, file_name |-> images[image_idx].filename,
         width |-> images[image_idx].width, height |-> images[image_idx].height,
         date_captured |-> "", license |-> 0, coco_url |-> "", flickr_url |-> ""]]

\* The entry of the "annotations" list for an annotation.
coco_annotation(annotation, annotation_id, image_idx) ==
    [id |-> annotation_id,
     image_id |-> image_idx,
     category_id |-> annotation.label_id,
     bbox |-> <<annotation.bounding_box[1].x, annotation.bounding_box[1].y,
                annotation.bounding_box[1].width, annotation.bounding_box[1].height>>,
     area |-> annotation.bounding_box[1].width * annotation.bounding_box[1].height,
     segmentation |-> <<>>,
     iscrowd |-> 0]

\* coco_annotations numbering the annotations of every image from 1.
RECURSIVE coco_annotations_per_image(_, _, _)
coco_annotations_per_image(images, image_idx, annotation_id) ==
    IF image_idx > Len(images) THEN <<>>
    ELSE [j \in 1..Len(images[image_idx].annotations) |->
              coco_annotation(images[image_idx].annotations[j], j, image_idx)]
         \o coco_annotations_per_image(images, image_idx + 1, annotation_id)

\* The "annotations" list of the COCO document from image image_idx on, the
\* next annotation id being annotation_id.
RECURSIVE coco_annotations(_, _, _)
coco_annotations(images, image_idx, annotation_id) ==
    IF image_idx > Len(images) THEN <<>>
    ELSE [j \in 1..Len(images[image_idx].annotations) |->
              coco_annotation(images[image_idx].annotations[j],
                              annotation_id + j - 1, image_idx)]
         \o coco_annotations(images, image_idx + 1,
                             annotation_id + Len(images[image_idx].annotations))

\* categories_map: the label ids in the order they are first met, each with
\* the label name met with it first.
RECURSIVE categories_map(_, _)
categories_map(entries, names) ==
    IF entries = <<>> THEN [keys |-> <<>>, name |-> <<>>]
    ELSE LET rest == categories_map(Tail(entries), Tail(names))
             k == Head(entries).category_id
             later == SelectSeq(rest.keys, LAMBDA x : x # k)
         IN [keys |-> <<k>> \o later, name |-> With(rest.name, k, Head(names))]

\* coco_categories without the sort.
coco_categories_unsorted(map) ==
    [i \in 1..Len(map.keys) |->
        [id |-> map.keys[i], name |-> map.name[map.keys[i]], supercategory |-> ""]]

\* The "categories" list of the COCO document.
coco_categories(map) ==
    LET keys == sorted(map.keys)
    IN [i \in 1..Len(keys) |->
           [id |-> keys[i], name |-> map.name[keys[i]], supercategory |-> ""]]

\* The label names of the annotations, image by image.
RECURSIVE label_names(_)
label_names(images) ==
    IF images = <<>> THEN <<>>
    ELSE [j \in 1..Len(Head(images).annotations) |-> Head(images).annotations[j].label_name]
         \o label_names(Tail(images))

\* ExportService._create_info_section, its two reads of the clock being
\* year and date_created.
_create_info_section(year, date_created) ==
    [description |-> "Image Annotation Tool - Annotated Dataset", url |-> "",
     version |-> "1.0", year |-> year, contributor |-> "",
     date_created |-> date_created]

\* ExportService.export_to_coco: whether it raises ValueError, and the disk
\* after the call.
export_to_coco(images, output_path, year, date_created) ==
    IF Len(images) = 0
    THEN [raised |-> TRUE, files |-> files]
    ELSE LET annotations == coco_annotations(images, 1, 1)
             coco_data ==
                 [info |-> _create_info_section(year, date_created),
                  licenses |-> <<>>,
                  images |-> coco_images(images),
                  annotations |-> annotations,
                  categories |-> coco_categories(
                                     categories_map(annotations, label_names(images)))]
         IN IF coco_data.annotations = <<>>
            THEN [raised |-> TRUE, files |-> files]
            ELSE [raised |-> FALSE,
                  files |-> With(files, output_path,
                                 [kind |-> "json", data |-> coco_data])]

(***************************************************************************)
(* The export and import services on their own: a list of images with      *)
(* their annotations is drawn, the image files lie on disk in some layout  *)
(* under the base directory, and the actions export the list and import    *)
(* what was exported. The clock has reached MaxClock.                      *)
(***************************************************************************)
MaxExportImages == 2
MaxExportAnn == 3

BasePath == <<"data">>
CsvPath == <<"data", "out.csv">>
CocoPath == <<"data", "out.json">>
ExportFilenames == {<<"a.jpg">>, <<"train", "a.jpg">>}
ExportLabelNames == (1 :> <<"a">>) @@ (2 :> <<"b">>)
AnnShapes ==
    {[label_id |-> 2, box |-> BoundingBox(0, 0, 5, 5)],
     [label_id |-> 1, box |-> BoundingBox(2, 3, 12, 5)]}

\* The lists of at most n annotation shapes, the images with such a list, and
\* the lists of at most count images that hold at most budget annotations.
AnnLists(n) == UNION {[1..k -> AnnShapes] : k \in 0..n}
ImageShapes(n) == {[filename |-> f, anns |-> a] : f \in ExportFilenames, a \in AnnLists(n)}
RECURSIVE ImageLists(_, _)
ImageLists(count, budget) ==
    IF count = 0 THEN {<<>>}
    ELSE {<<>>} \cup
         UNION {{<<im>> \o rest : rest \in ImageLists(count - 1, budget - Len(im.anns))} :
                im \in ImageShapes(budget)}

\* The number of annotations of the first n images of a list.
RECURSIVE AnnCount(_, _)
AnnCount(images, n) ==
    IF n = 0 THEN 0 ELSE AnnCount(images, n - 1) + Len(images[n].annotations)
RECURSIVE ShapeCount(_, _)
ShapeCount(shapes, n) ==
    IF n = 0 THEN 0 ELSE ShapeCount(shapes, n - 1) + Len(shapes[n].anns)

\* The images the loader and the annotation store make of a list of shapes:
\* the i-th image has the id i and its file under the base directory, the
\* k-th annotation the id k and a bounding box.
MakeImages(shapes) ==
    [i \in 1..Len(shapes) |->
        LoadedImage(i, BasePath \o shapes[i].filename, shapes[i].filename, 8, 6,
                    "JPG",
                    [j \in 1..Len(shapes[i].anns) |->
                        Annotation(ShapeCount(shapes, i - 1) + j,
                                   Some(shapes[i].anns[j].box),
                                   shapes[i].anns[j].label_id,
                                   ExportLabelNames[shapes[i].anns[j].label_id],
                                   i, 0, 0)])]

\* Where the image files lie: where their filenames say ("direct"), by their
\* bare names in the base directory ("flat"), where their filenames say below
\* another directory of the base directory ("deep"), or nowhere ("missing").
Layouts == {"direct", "flat", "deep", "missing"}
ImageFiles(images, layout) ==
    IF layout = "missing" THEN {}
    ELSE {CASE layout = "direct" -> BasePath \o images[i].filename
            [] layout = "flat" -> BasePath \o <<images[i].filename[Len(images[i].filename)]>>
            [] layout = "deep" -> BasePath \o <<"other">> \o images[i].filename :
          i \in 1..Len(images)}

\* The disk before the export: the image files, and under the output paths
\* either nothing or an older file (one that is not a JSON document).
Disk(images, layout, old) ==
    [p \in ImageFiles(images, layout) \cup (IF old THEN {CsvPath, CocoPath} ELSE {}) |->
        IF p \in {CsvPath, CocoPath} THEN [kind |-> "old"] ELSE [kind |-> "image"]]

ExportInputs ==
    {[images |-> MakeImages(shapes), layout |-> layout, old |-> old] :
        shapes \in ImageLists(MaxExportImages, MaxExportAnn),
        layout \in Layouts, old \in BOOLEAN}

InitExport ==
    /\ arg \in ExportInputs
    /\ _annotations = <<>>
    /\ _validation_enabled = TRUE
    /\ heap = <<>>
    /\ nextAnnId = AnnCount(arg.images, Len(arg.images)) + 1
    /\ clock = MaxClock
    /\ _images = <<>>
    /\ _base_path = None
    /\ _image_order = <<>>
    /\ _current_index = -1
    /\ nextImageId = Len(arg.images) + 1
    /\ InitLabelManager
    /\ InitImageCanvas([width |-> 8, height |-> 6])
    /\ files = Disk(arg.images, arg.layout, arg.old)
    /\ last = NoOp
    /\ out = <<>>

\* ExportService.export_to_csv(images, CsvPath)
ExportToCsv ==
    /\ last.op = "init"
    /\ \E r \in {export_to_csv(arg.images, CsvPath)} :
        /\ files' = r.files
        /\ last' = Result("export_to_csv", 0, 0, ~r.raised, r.raised)
        /\ out' = <<>>
        /\ UNCHANGED <<storeVars, imageVars, _base_path, _labels, canvasVars, arg>>

\* ExportService.export_to_coco(images, CocoPath)
ExportToCoco ==
    /\ last.op = "init"
    /\ \E year \in Times(clock) : \E date_created \in Times(year) :
       \E r \in {export_to_coco(arg.images, CocoPath, year, date_created)} :
        /\ files' = r.files
        /\ clock' = IF Len(arg.images) = 0 THEN clock ELSE date_created
        /\ last' = Result("export_to_coco", 0, 0, ~r.raised, r.raised)
        /\ out' = <<>>
        /\ UNCHANGED <<_annotations, _validation_enabled, heap, nextAnnId, imageVars,
                       _base_path, _labels, canvasVars, arg>>

(***************************************************************************)
(* core/import_service.py                                                  *)
(***************************************************************************)
\* pathlib: Path(p).name, Path(p).parent, and the files below a directory.
PathName(path) == <<path[Len(path)]>>
PathParent(path) == SubSeq(path, 1, Len(path) - 1)
IsFile(disk, path) == path \in DOMAIN disk
IsBelow(base, path) ==
    Len(path) > Len(base) /\ SubSeq(path, 1, Len(base)) = base

\* Path(file_name).suffix.upper().lstrip('.') of the file names in use.
SuffixUpper == ("a.jpg" :> "JPG") @@ ("a[1].jpg" :> "JPG") @@ ("a1.jpg" :> "JPG")

\* ImportService._validate_coco_format
_validate_coco_format(coco_data) ==
    \A key \in {"images", "annotations", "categories"} : key \in DOMAIN coco_data

\* ImportService._build_label_map: a later category of the same id replaces
\* an earlier one.
RECURSIVE _build_label_map(_)
_build_label_map(categories) ==
    IF categories = <<>> THEN <<>>
    ELSE LET n == Len(categories)
         IN With(_build_label_map(SubSeq(categories, 1, n - 1)),
                 categories[n].id, categories[n].name)

\* The characters of the file names in use.
Chars ==
    ("a.jpg" :> <<"a", ".", "j", "p", "g">>)
    @@ ("a[1].jpg" :> <<"a", "[", "1", "]", ".", "j", "p", "g">>)
    @@ ("a1.jpg" :> <<"a", "1", ".", "j", "p", "g">>)
    @@ ("out.csv" :> <<"o", "u", "t", ".", "c", "s", "v">>)
    @@ ("out.json" :> <<"o", "u", "t", ".", "j", "s", "o", "n">>)
    @@ ("b.PNG" :> <<"b", ".", "P", "N", "G">>)
    @@ ("c.jpg" :> <<"c", ".", "j", "p", "g">>)

\* The place of the "]" that closes the "[" at the head of a pattern (a "]"
\* right behind the "[" belongs to the set), 0 if there is none.
ClosingBracket(pattern) ==
    IF \E k \in 3..Len(pattern) : pattern[k] = "]"
    THEN CHOOSE k \in 3..Len(pattern) :
             pattern[k] = "]" /\ \A j \in 3..(k - 1) : pattern[j] # "]"
    ELSE 0

\* fnmatch of a name against a pattern with *, ? and [seq] (the sets of the
\* names in use have no range and no negation).
RECURSIVE GlobMatch(_, _)
GlobMatch(name, pattern) ==
    IF pattern = <<>> THEN name = <<>>
    ELSE IF Head(pattern) = "*"
    THEN GlobMatch(name, Tail(pattern)) \/ (name # <<>> /\ GlobMatch(Tail(name), pattern))
    ELSE IF name = <<>> THEN FALSE
    ELSE IF Head(pattern) = "?" THEN GlobMatch(Tail(name), Tail(pattern))
    ELSE IF Head(pattern) = "[" /\ ClosingBracket(pattern) # 0
    THEN /\ Head(name) \in {pattern[j] : j \in 2..(ClosingBracket(pattern) - 1)}
         /\ GlobMatch(Tail(name),
                      SubSeq(pattern, ClosingBracket(pattern) + 1, Len(pattern)))
    ELSE Head(name) = Head(pattern) /\ GlobMatch(Tail(name), Tail(pattern))

\* base_path.rglob(basename): the files below base_path whose name matches
\* basename as a pattern (the directories it yields are skipped by is_file).
rglob(disk, base_path, basename) ==
    {p \in DOMAIN disk :
        IsBelow(base_path, p) /\ GlobMatch(Chars[p[Len(p)]], Chars[basename])}

\* The paths _match_images_to_files can resolve file_name to under base_path
\* (first the direct path, then the bare name in the base directory, then the
\* first match of a recursive search, whichever the search yields first); no
\* path when none is found.
resolve_file(disk, base_path, filename) ==
    IF IsFile(disk, base_path \o filename)
    THEN {base_path \o filename}
    ELSE IF IsFile(disk, base_path \o PathName(filename))
    THEN {base_path \o PathName(filename)}
    ELSE rglob(disk, base_path, filename[Len(filename)])

\* ImportService._match_images_to_files: the maps from COCO image id to
\* resolved path the call can return (the entry of an id is that of the last
\* image of that id that resolves).
_match_images_to_files(disk, coco_imgs, base_path) ==
    LET resolving == {i \in 1..Len(coco_imgs) :
                         resolve_file(disk, base_path, coco_imgs[i].file_name) # {}}
        ids == {coco_imgs[i].id : i \in resolving}
        lastOf(id) == CHOOSE i \in resolving :
                          /\ coco_imgs[i].id = id
                          /\ \A j \in resolving : coco_imgs[j].id = id => j <= i
    IN UNION {[ids -> UNION {resolve_file(disk, base_path, coco_imgs[i].file_name) :
                              i \in resolving}]} \cap
       {m \in [ids -> DOMAIN disk] :
           \A id \in ids :
               m[id] \in resolve_file(disk, base_path, coco_imgs[lastOf(id)].file_name)}

UnknownLabel(category_id) ==
    <<"u", "n", "k", "n", "o", "w", "n", "_">> \o Str(category_id)

\* image_id="": the empty string, which is the id of no image (the generated
\* ids are positive here).
NoImageId == 0

\* The Annotation _convert_annotations makes of a COCO annotation; the bbox
\* numbers of the documents read here are integers, which int() returns as
\* they are.
converted_annotation(coco_ann, label_map, id, created_at, modified_at) ==
    Annotation(id,
               Some(BoundingBox(coco_ann.bbox[1], coco_ann.bbox[2],
                                coco_ann.bbox[3], coco_ann.bbox[4])),
               coco_ann.category_id,
               IF coco_ann.category_id \in DOMAIN label_map
               THEN label_map[coco_ann.category_id]
               ELSE UnknownLabel(coco_ann.category_id),
               NoImageId, created_at, modified_at)

\* _convert_annotations grouping the annotations by their category.
_convert_annotations_by_category(coco_anns, label_map, first_id, now) ==
    LET ids == {coco_anns[k].category_id : k \in 1..Len(coco_anns)}
    IN [image_id \in ids |->
           LET ks == SortedSeq({k \in 1..Len(coco_anns) :
                                   coco_anns[k].category_id = image_id})
           IN [j \in 1..Len(ks) |->
                  converted_annotation(coco_anns[ks[j]], label_map,
                                       first_id + ks[j] - 1, now, now)]]

\* ImportService._convert_annotations: COCO image id -> the Annotations made
\* of that image's COCO annotations, in the document's order; the k-th
\* annotation of the document gets the k-th fresh id.
_convert_annotations(coco_anns, label_map, first_id, now) ==
    LET ids == {coco_anns[k].image_id : k \in 1..Len(coco_anns)}
    IN [image_id \in ids |->
           LET ks == SortedSeq({k \in 1..Len(coco_anns) :
                                   coco_anns[k].image_id = image_id})
           IN [j \in 1..Len(ks) |->
                  converted_annotation(coco_anns[ks[j]], label_map,
                                       first_id + ks[j] - 1, now, now)]]

\* imported_images ending at the first image whose file was not resolved.
RECURSIVE imported_images_break(_, _, _, _)
imported_images_break(coco_imgs, image_path_map, annotations_by_image, first_id) ==
    IF coco_imgs = <<>> THEN <<>>
    ELSE LET coco_img == Head(coco_imgs)
         IN IF coco_img.id \notin DOMAIN image_path_map
            THEN <<>>
            ELSE <<LoadedImage(first_id, image_path_map[coco_img.id], coco_img.file_name,
                               coco_img.width, coco_img.height,
                               SuffixUpper[PathName(coco_img.file_name)[1]],
                               IF coco_img.id \in DOMAIN annotations_by_image
                               THEN annotations_by_image[coco_img.id]
                               ELSE <<>>)>>
                 \o imported_images_break(Tail(coco_imgs), image_path_map,
                                          annotations_by_image, first_id + 1)

\* The ImageMetadata list import_from_coco builds: the images whose file was
\* resolved, in the document's order, with fresh ids.
RECURSIVE imported_images(_, _, _, _)
imported_images(coco_imgs, image_path_map, annotations_by_image, first_id) ==
    IF coco_imgs = <<>> THEN <<>>
    ELSE LET coco_img == Head(coco_imgs)
         IN IF coco_img.id \notin DOMAIN image_path_map
            THEN imported_images(Tail(coco_imgs), image_path_map,
                                 annotations_by_image, first_id)
            ELSE <<LoadedImage(first_id, image_path_map[coco_img.id], coco_img.file_name,
                               coco_img.width, coco_img.height,
                               SuffixUpper[PathName(coco_img.file_name)[1]],
                               IF coco_img.id \in DOMAIN annotations_by_image
                               THEN annotations_by_image[coco_img.id]
                               ELSE <<>>)>>
                 \o imported_images(Tail(coco_imgs), image_path_map,
                                    annotations_by_image, first_id + 1)

\* import_from_coco without the check of the format: the first missing
\* section raises KeyError where it is read.
import_from_coco_unvalidated(disk, coco_path, base_image_path, now) ==
    IF ~IsFile(disk, coco_path)
    THEN {[raised |-> "FileNotFoundError", images |-> <<>>, label_map |-> <<>>]}
    ELSE IF disk[coco_path].kind # "json"
    THEN {[raised |-> "JSONDecodeError", images |-> <<>>, label_map |-> <<>>]}
    ELSE LET coco_data == disk[coco_path].data
         IN IF ~_validate_coco_format(coco_data)
            THEN {[raised |-> "KeyError", images |-> <<>>, label_map |-> <<>>]}
            ELSE LET label_map == _build_label_map(coco_data.categories)
                     base == IF IsNone(base_image_path) THEN PathParent(coco_path)
                             ELSE base_image_path[1]
                     annotations_by_image ==
                         _convert_annotations(coco_data.annotations, label_map,
                                              nextAnnId, now)
                 IN {[raised |-> "",
                      images |-> imported_images(coco_data.images, image_path_map,
                                                 annotations_by_image, nextImageId),
                      label_map |-> label_map] :
                     image_path_map \in
                         _match_images_to_files(disk, coco_data.images, base)}

\* ImportService.import_from_coco: the outcomes of the call on the disk: the
\* exception raised or "", the images and the label map returned.
import_from_coco(disk, coco_path, base_image_path, now) ==
    IF ~IsFile(disk, coco_path)
    THEN {[raised |-> "FileNotFoundError", images |-> <<>>, label_map |-> <<>>]}
    ELSE IF disk[coco_path].kind # "json"
    THEN {[raised |-> "JSONDecodeError", images |-> <<>>, label_map |-> <<>>]}
    ELSE LET coco_data == disk[coco_path].data
         IN IF ~_validate_coco_format(coco_data)
            THEN {[raised |-> "ValueError", images |-> <<>>, label_map |-> <<>>]}
            ELSE LET label_map == _build_label_map(coco_data.categories)
                     base == IF IsNone(base_image_path) THEN PathParent(coco_path)
                             ELSE base_image_path[1]
                     annotations_by_image ==
                         _convert_annotations(coco_data.annotations, label_map,
                                              nextAnnId, now)
                 IN {[raised |-> "",
                      images |-> imported_images(coco_data.images, image_path_map,
                                                 annotations_by_image, nextImageId),
                      label_map |-> label_map] :
                     image_path_map \in
                         _match_images_to_files(disk, coco_data.images, base)}

\* ImportService.import_from_coco(CocoPath), after an export to CocoPath.
ImportFromCoco ==
    /\ last.op = "export_to_coco"
    /\ \E base_image_path \in {None, Some(BasePath)} :
       \E r \in import_from_coco(files, CocoPath, base_image_path, clock) :
        /\ out' = r
        /\ last' = Result("import_from_coco", 0, 0, r.raised = "", r.raised # "")
        /\ nextAnnId' = IF r.raised = ""
                        THEN nextAnnId + Len(files[CocoPath].data.annotations)
                        ELSE nextAnnId
        /\ nextImageId' = nextImageId + Len(r.images)
        /\ UNCHANGED <<_annotations, _validation_enabled, heap, clock, _images,
                       _image_order, _current_index, _labels, canvasVars, files, _base_path, arg>>

NextExport ==
    \/ ExportToCsv
    \/ ExportToCoco
    \/ ImportFromCoco

SpecExport == InitExport /\ [][NextExport]_vars

(***************************************************************************)
(* COCO documents that were not written by the export, and their import.   *)
(***************************************************************************)
MaxDocImages == 2
MaxDocAnn == 2

\* The id of the i-th image of a document (not its position).
DocImageId(i) == 9 - 2 * i
DocFilenames == {<<"a.jpg">>, <<"train", "a.jpg">>, <<"a[1].jpg">>, <<"a1.jpg">>}
DocImageLists ==
    UNION {{[i \in 1..n |-> [id |-> DocImageId(i), file_name |-> names[i],
                             width |-> 8, height |-> 6]] :
            names \in [1..n -> DocFilenames]} : n \in 0..MaxDocImages}
DocAnnShapes ==
    {[image_id |-> DocImageId(1), category_id |-> 1, bbox |-> <<0, 0, 5, 5>>],
     [image_id |-> DocImageId(2), category_id |-> 5, bbox |-> <<2, 3, 12, 5>>],
     [image_id |-> DocImageId(1), category_id |-> 2, bbox |-> <<2, 3, 12, 5>>]}
DocAnnLists ==
    UNION {{[k \in 1..n |-> [id |-> k, image_id |-> shapes[k].image_id,
                             category_id |-> shapes[k].category_id,
                             bbox |-> shapes[k].bbox]] :
            shapes \in [1..n -> DocAnnShapes]} : n \in 0..MaxDocAnn}
DocCategory(id, name) == [id |-> id, name |-> name, supercategory |-> ""]
DocCategoryLists ==
    {<<>>,
     <<DocCategory(1, <<"a">>)>>,
     <<DocCategory(2, <<"b">>), DocCategory(1, <<"a">>)>>,
     <<DocCategory(1, <<"a">>), DocCategory(1, <<"b">>)>>}

\* The documents: with the three sections, or with one of them left out.
RequiredKeys == {"images", "annotations", "categories"}
DocKeySets == {RequiredKeys} \cup {RequiredKeys \ {key} : key \in RequiredKeys}
Documents ==
    {[key \in keys |->
         CASE key = "images" -> images
           [] key = "annotations" -> annotations
           [] key = "categories" -> categories] :
     keys \in DocKeySets, images \in DocImageLists,
     annotations \in DocAnnLists, categories \in DocCategoryLists}

\* The image files below the base directory.
ImportLayouts ==
    ("both" :> {<<"data", "train", "a.jpg">>, <<"data", "a.jpg">>,
                <<"data", "other", "a.jpg">>})
    @@ ("flat" :> {<<"data", "a.jpg">>, <<"data", "other", "a.jpg">>})
    @@ ("deep" :> {<<"data", "other", "a.jpg">>, <<"data", "more", "a.jpg">>})
    @@ ("none" :> {})
    @@ ("brackets" :> {<<"data", "other", "a[1].jpg">>, <<"data", "other", "a1.jpg">>})
    @@ ("literal" :> {<<"data", "other", "a[1].jpg">>})
ImportDisk(doc, layout) ==
    [p \in ImportLayouts[layout] \cup {CocoPath} |->
        IF p = CocoPath THEN [kind |-> "json", data |-> doc] ELSE [kind |-> "image"]]
ImportInputs ==
    {[doc |-> doc, layout |-> layout] :
        doc \in Documents, layout \in DOMAIN ImportLayouts}

InitImport ==
    /\ arg \in ImportInputs
    /\ _annotations = <<>>
    /\ _validation_enabled = TRUE
    /\ heap = <<>>
    /\ nextAnnId = 1
    /\ clock = MaxClock
    /\ _images = <<>>
    /\ _base_path = None
    /\ _image_order = <<>>
    /\ _current_index = -1
    /\ nextImageId = 1
    /\ InitLabelManager
    /\ InitImageCanvas([width |-> 8, height |-> 6])
    /\ files = ImportDisk(arg.doc, arg.layout)
    /\ last = NoOp
    /\ out = <<>>

\* ImportService.import_from_coco(CocoPath) of a document on the disk.
ImportDocument ==
    /\ last.op = "init"
    /\ \E base_image_path \in {None, Some(BasePath)} :
       \E r \in import_from_coco(files, CocoPath, base_image_path, clock) :
        /\ out' = r
        /\ last' = Result("import_from_coco", 0, 0, r.raised = "", r.raised # "")
        /\ nextAnnId' = IF r.raised = ""
                        THEN nextAnnId + Len(files[CocoPath].data.annotations)
                        ELSE nextAnnId
        /\ nextImageId' = nextImageId + Len(r.images)
        /\ UNCHANGED <<_annotations, _validation_enabled, heap, clock, _images,
                       _image_order, _current_index, _labels, canvasVars, files, _base_path, arg>>

NextImport == ImportDocument

SpecImport == InitImport /\ [][NextImport]_vars

(***************************************************************************)
(* ImageManager.load_from_subdirectories and ImageLoader.load_image        *)
(***************************************************************************)
MaxSubdirs == 2

\* utils/constants.py SUPPORTED_FORMATS, and image_extensions of
\* load_from_subdirectories.
SUPPORTED_FORMATS ==
    <<<<".", "j", "p", "g">>, <<".", "j", "p", "e", "g">>, <<".", "p", "n", "g">>,
      <<".", "b", "m", "p">>, <<".", "g", "i", "f">>>>
image_extensions == SUPPORTED_FORMATS

\* str.upper() and str.lower() over the letters of the names in use.
Letters ==
    <<<<"a", "A">>, <<"b", "B">>, <<"c", "C">>, <<"e", "E">>, <<"f", "F">>, <<"g", "G">>,
      <<"i", "I">>, <<"j", "J">>, <<"m", "M">>, <<"n", "N">>, <<"p", "P">>>>
upper(text) ==
    [i \in 1..Len(text) |->
        IF \E l \in 1..Len(Letters) : Letters[l][1] = text[i]
        THEN Letters[CHOOSE l \in 1..Len(Letters) : Letters[l][1] = text[i]][2]
        ELSE text[i]]
lower(text) ==
    [i \in 1..Len(text) |->
        IF \E l \in 1..Len(Letters) : Letters[l][2] = text[i]
        THEN Letters[CHOOSE l \in 1..Len(Letters) : Letters[l][2] = text[i]][1]
        ELSE text[i]]

\* Path.suffix of a name: from its last dot on, unless the name starts or ends
\* with that dot.
suffix(name) ==
    LET dots == {i \in 1..Len(name) : name[i] = "."}
    IN IF dots = {} THEN <<>>
       ELSE LET i == CHOOSE d \in dots : \A e \in dots : e <= d
            IN IF 1 < i /\ i < Len(name) THEN SubSeq(name, i, Len(name)) ELSE <<>>

\* The entries of a directory: the names of the files and of the directories
\* right below it.
Entries(disk, dir) == {p[Len(dir) + 1] : p \in {q \in DOMAIN disk : IsBelow(dir, q)}}

\* full_path.glob(pattern): the entries of the directory that match.
glob(disk, dir, pattern) ==
    {dir \o <<name>> : name \in {e \in Entries(disk, dir) : GlobMatch(Chars[e], pattern)}}

\* ImageLoader.validate_file
validate_file(disk, file_path) ==
    /\ IsFile(disk, file_path)
    /\ \E k \in 1..Len(SUPPORTED_FORMATS) :
           lower(suffix(Chars[file_path[Len(file_path)]])) = SUPPORTED_FORMATS[k]

\* ImageLoader.load_image (cache disabled): the exception raised or "", and
\* the metadata with the given fresh id.
load_image(disk, file_path, id) ==
    IF ~validate_file(disk, file_path)
    THEN [raised |-> "FileNotFoundError", metadata |-> <<>>]
    ELSE IF disk[file_path].kind # "image"
    THEN [raised |-> "ValueError", metadata |-> <<>>]
    ELSE [raised |-> "",
          metadata |->
              LoadedImage(id, file_path, PathName(file_path), 8, 6,
                          SelectSeq(upper(suffix(Chars[file_path[Len(file_path)]])),
                                    LAMBDA c : c # "."),
                          <<>>)]

\* img_path.relative_to(base_path)
relative_to(path, base_path) == SubSeq(path, Len(base_path) + 1, Len(path))

\* ImageManager.add_image on the manager m (its collection, order, cursor, the
\* next fresh id and the count of load_from_subdirectories).
add_image_to(m, file_path, metadata) ==
    LET order == Append(m.order, metadata.id)
    IN [m EXCEPT !.images = With(m.images, metadata.id,
                                 [metadata EXCEPT !.file_path = file_path]),
                 !.order = order,
                 !.index = IF Len(order) = 1 THEN 0 ELSE m.index]

\* load_file counting the files it could not load as well.
load_file_counting(disk, m, base_path, img_path) ==
    IF ~IsFile(disk, img_path) THEN m
    ELSE LET r == load_image(disk, img_path, m.next)
         IN IF r.raised # "" THEN [m EXCEPT !.count = m.count + 1]
            ELSE [add_image_to(m, img_path,
                               [r.metadata EXCEPT
                                   !.filename = relative_to(img_path, base_path)])
                     EXCEPT !.next = m.next + 1, !.count = m.count + 1]

\* The body of the loop of load_from_subdirectories for one path: a path that
\* is no file and a file that does not load are skipped.
load_file(disk, m, base_path, img_path) ==
    IF ~IsFile(disk, img_path) THEN m
    ELSE LET r == load_image(disk, img_path, m.next)
         IN IF r.raised # "" THEN m
            ELSE [add_image_to(m, img_path,
                               [r.metadata EXCEPT
                                   !.filename = relative_to(img_path, base_path)])
                     EXCEPT !.next = m.next + 1, !.count = m.count + 1]

\* The loop over a list of paths.
RECURSIVE load_files(_, _, _, _)
load_files(disk, m, base_path, img_paths) ==
    IF img_paths = <<>> THEN m
    ELSE load_files(disk, load_file(disk, m, base_path, Head(img_paths)), base_path,
                    Tail(img_paths))

\* The orders in which a glob can yield a set of paths.
Orders(paths) ==
    {order \in [1..Cardinality(paths) -> paths] :
        \A i, j \in 1..Cardinality(paths) : order[i] = order[j] => i = j}

\* The patterns load_from_subdirectories globs a subdirectory with, in order:
\* for every extension '*' + ext, then '*' + ext.upper().
Patterns ==
    [k \in 1..(2 * Len(image_extensions)) |->
        IF k % 2 = 1 THEN <<"*">> \o image_extensions[(k + 1) \div 2]
        ELSE <<"*">> \o upper(image_extensions[k \div 2])]

\* The managers load_from_subdirectories can leave after the patterns from
\* the k-th on of the subdirectories from the s-th on.
RECURSIVE load_from(_, _, _, _, _, _)
load_from(disk, ms, base_path, subdirectories, s, k) ==
    IF s > Len(subdirectories) THEN ms
    ELSE IF k > Len(Patterns)
    THEN load_from(disk, ms, base_path, subdirectories, s + 1, 1)
    ELSE load_from(disk,
                   UNION {{load_files(disk, m, base_path, img_paths) :
                           img_paths \in
                               Orders(glob(disk, base_path \o subdirectories[s],
                                           Patterns[k]))} : m \in ms},
                   base_path, subdirectories, s, k + 1)

\* ImageManager.load_from_subdirectories(config, image_loader): the managers
\* it can leave; their count is the number returned.
load_from_subdirectories(disk, config) ==
    load_from(disk,
              {[images |-> _images, order |-> _image_order, index |-> _current_index,
                next |-> nextImageId, count |-> 0]},
              config.base_path, config.subdirectories, 1, 1)

\* SubdirectoryConfig(base_path, subdirectories)
SubdirectoryConfig(base_path, subdirectories) ==
    [base_path |-> base_path, subdirectories |-> subdirectories]

Subdirs == {<<"train">>, <<"val">>, <<"none">>}
SubdirLists == UNION {[1..n -> Subdirs] : n \in 0..MaxSubdirs}

\* The disks: per path an image, a file that is no image ("broken") or
\* nothing; data/val/c.jpg is a directory when it holds a file.
BulkFiles ==
    [path \in {<<"data", "train", "a.jpg">>, <<"data", "train", "a1.jpg">>,
               <<"data", "train", "b.PNG">>, <<"data", "val", "a.jpg">>,
               <<"data", "val", "c.jpg", "a.jpg">>} |->
        IF path[Len(path)] = "a.jpg" /\ Len(path) = 3
        THEN {"image", "broken", "absent"}
        ELSE {"image", "absent"}]
BulkDisks ==
    {[p \in {q \in DOMAIN kinds : kinds[q] # "absent"} |-> [kind |-> kinds[p]]] :
        kinds \in {k \in [DOMAIN BulkFiles -> {"image", "broken", "absent"}] :
                      \A q \in DOMAIN BulkFiles : k[q] \in BulkFiles[q]}}

InitBulk ==
    /\ InitAnnotationManager(TRUE)
    /\ InitLabelManager
    /\ InitImageCanvas([width |-> 8, height |-> 6])
    /\ InitRest
    /\ files \in BulkDisks
    /\ _base_path = None
    /\ \E loaded \in BOOLEAN :
        IF loaded
        THEN /\ _images = (1 :> LoadedImage(1, <<"data", "z.jpg">>, <<"z.jpg">>, 8, 6,
                                            <<"J", "P", "G">>, <<>>))
             /\ _image_order = <<1>>
             /\ _current_index = 0
             /\ nextImageId = 2
        ELSE /\ _images = <<>>
             /\ _image_order = <<>>
             /\ _current_index = -1
             /\ nextImageId = 1

\* ImageManager.load_from_subdirectories(config, image_loader)
LoadFromSubdirectories ==
    /\ last.op = "init"
    /\ \E subdirectories \in SubdirLists :
       \E config \in {SubdirectoryConfig(BasePath, subdirectories)} :
       \E m \in load_from_subdirectories(files, config) :
        /\ _base_path' = Some(config.base_path)
        /\ _images' = m.images
        /\ _image_order' = m.order
        /\ _current_index' = m.index
        /\ nextImageId' = m.next
        /\ last' = Result("load_from_subdirectories", 0, m.count, TRUE, FALSE)
        /\ arg' = [config |-> config, order |-> _image_order]
        /\ UNCHANGED <<files, canvasVars, storeVars, _labels, out>>

NextBulk == LoadFromSubdirectories

SpecBulk == InitBulk /\ [][NextBulk]_vars

(***************************************************************************)
(* ui/main_window.py with its canvas: the handlers of the main window      *)
(* together with the canvas they display on. The files loaded stay         *)
(* loadable, every pixmap has the size WindowPixmap, and the annotation    *)
(* list widget is given the list the canvas is given by every handler, so  *)
(* it offers the annotations of _current_annotations for deletion.         *)
(***************************************************************************)
WindowPixmap == QSize(8, 6)

\* The Annotation objects a list refers to, as the canvas reads them.
Shown(annotations, h) == [i \in 1..Len(annotations) |-> h[annotations[i]]]

\* What the canvas displays.
CanvasShown ==
    [g |-> CanvasGeometry, annotations |-> _current_annotations,
     selected |-> _selected_annotation_id]

\* ImageCanvas.set_annotations(annotations), as the handlers call it with the
\* current image's list: the canvas after the call.
set_annotations(annotations, h) ==
    [CanvasShown EXCEPT !.annotations = Shown(annotations, h)]

\* MainWindow._display_current_image over the collection and the heap the
\* handler leaves: the canvas after the call, cleared without a current
\* image, else with the image's pixmap and its annotations.
_display_current_image(images, order, index, h) ==
    LET current == current_image(images, order, index)
    IN IF IsNone(current)
       THEN [g |-> [CanvasGeometry EXCEPT !.pixmap = None, !.scaled_pixmap = None],
             annotations |-> <<>>, selected |-> None]
       ELSE [g |-> _update_scaled_pixmap(WindowPixmap, size, _scale_factor),
             annotations |-> Shown(images[current[1]].annotations, h),
             selected |-> _selected_annotation_id]

\* The canvas takes the state c; a handler of the window emits no canvas signal.
Display(c) ==
    /\ _pixmap' = c.g.pixmap
    /\ _scaled_pixmap' = c.g.scaled_pixmap
    /\ _image_offset_x' = c.g.offset_x
    /\ _image_offset_y' = c.g.offset_y
    /\ _scale_factor' = c.g.scale_factor
    /\ _current_annotations' = c.annotations
    /\ _selected_annotation_id' = c.selected
    /\ emitted' = <<>>
    /\ UNCHANGED <<size, drawingVars>>

\* MainWindow.load_images with one file selected, and the display of the
\* current image when the file was loaded.
WindowLoadImages ==
    /\ nextImageId <= MaxAppImages
    /\ \E file_path \in AppPaths, loads \in BOOLEAN :
       \E dialog \in IF has_labels THEN {None} ELSE Opt(DialogLabelSets) :
       \E labels \in {IF IsNone(dialog) THEN _labels ELSE set_labels(dialog[1])} :
        /\ _labels' = labels
        /\ arg' = <<>>
        /\ IF DOMAIN labels = {} \/ ~loads
           THEN /\ last' = Result("load_images", 0, 0, FALSE, FALSE)
                /\ UNCHANGED <<files, _base_path, canvasVars, storeVars, imageVars, out>>
           ELSE \E r \in {add_image(file_path, ImageMetadata(nextImageId, file_path))} :
                /\ _images' = r.images
                /\ _image_order' = r.order
                /\ _current_index' = r.index
                /\ nextImageId' = nextImageId + 1
                /\ Display(_display_current_image(r.images, r.order, r.index, heap))
                /\ last' = Result("load_images", 0, r.ret, TRUE, FALSE)
                /\ UNCHANGED <<files, _base_path, storeVars, out>>

\* MainWindow._on_annotation_created(box), the canvas's annotation_created
\* signal received: as OnAnnotationCreated, and the canvas is given the
\* current image's list when the annotation was added.
WindowOnAnnotationCreated ==
    \E box \in AppBoxes, accepted \in BOOLEAN :
        IF IsNone(get_current_image) \/ ~accepted \/ ~has_labels
        THEN /\ last' = Result("annotation_created", 0, 0, FALSE, FALSE)
             /\ arg' = <<>>
             /\ UNCHANGED <<files, _base_path, canvasVars, storeVars, imageVars, _labels, out>>
        ELSE \E label_id \in DOMAIN get_all_labels :
             \E t1 \in Times(clock) : \E t2 \in Times(t1) :
             \E image \in {_images[get_current_image[1]]} :
             \E r \in {create_annotation(image.id, Some(box), label_id,
                                         get_all_labels[label_id], t1, t2)} :
                /\ r.raised \/ nextAnnId <= MaxAnn
                /\ _annotations' = r.annotations
                /\ _images' = IF r.raised THEN _images
                              ELSE [_images EXCEPT ![image.id] = add_annotation(image, r.ret)]
                /\ heap' = Collect(r.heap, r.annotations, _images')
                /\ nextAnnId' = IF r.raised THEN nextAnnId ELSE nextAnnId + 1
                /\ clock' = t2
                /\ IF r.raised THEN UNCHANGED canvasVars
                   ELSE Display(set_annotations(_images'[image.id].annotations, heap'))
                /\ last' = Result("annotation_created", image.id, r.ret, ~r.raised, r.raised)
                /\ arg' = [image_id |-> image.id, box |-> Some(box), label_id |-> label_id,
                           label_name |-> get_all_labels[label_id]]
                /\ UNCHANGED <<files, _base_path, _validation_enabled, _image_order, _current_index,
                               nextImageId, _labels, out>>

\* MainWindow._next_image: the current image is displayed when next_image
\* returned one.
WindowNextImage ==
    \E r \in {next_image} :
        /\ _current_index' = r.index
        /\ IF IsNone(r.ret) THEN UNCHANGED canvasVars
           ELSE Display(_display_current_image(_images, _image_order, r.index, heap))
        /\ last' = Result("next", 0, OptId(r.ret), ~IsNone(r.ret), FALSE)
        /\ arg' = [index |-> _current_index]
        /\ UNCHANGED <<files, _base_path, storeVars, _images, _image_order, nextImageId, _labels, out>>

\* MainWindow._previous_image
WindowPreviousImage ==
    \E r \in {previous_image} :
        /\ _current_index' = r.index
        /\ IF IsNone(r.ret) THEN UNCHANGED canvasVars
           ELSE Display(_display_current_image(_images, _image_order, r.index, heap))
        /\ last' = Result("previous", 0, OptId(r.ret), ~IsNone(r.ret), FALSE)
        /\ arg' = [index |-> _current_index]
        /\ UNCHANGED <<files, _base_path, storeVars, _images, _image_order, nextImageId, _labels, out>>

\* The removal both deletion handlers make: the annotation is removed from
\* the current image's list and deleted from the store, and the canvas is
\* given the current image's list.
DeleteFromCurrentImage(op, annotation_id) ==
    \E image \in {_images[get_current_image[1]]} :
    \E r \in {delete_annotation(annotation_id)} :
        /\ _images' = [_images EXCEPT ![image.id] =
                          remove_annotation(image, annotation_id, heap)]
        /\ _annotations' = r.annotations
        /\ heap' = Collect(heap, r.annotations, _images')
        /\ Display(set_annotations(_images'[image.id].annotations, heap))
        /\ last' = Result(op, annotation_id, 0, r.ret, FALSE)
        /\ arg' = [image_id |-> image.id]
        /\ UNCHANGED <<files, _base_path, _validation_enabled, nextAnnId, clock, _image_order,
                       _current_index, nextImageId, _labels, out>>

\* MainWindow._delete_selected_annotation, the Delete key pressed: nothing
\* without a selection on the canvas or without a current image.
WindowDeleteSelectedAnnotation ==
    IF IsNone(_selected_annotation_id) \/ IsNone(get_current_image)
    THEN /\ last' = Result("delete_selected", 0, 0, FALSE, FALSE)
         /\ arg' = <<>>
         /\ UNCHANGED <<files, _base_path, canvasVars, storeVars, imageVars, _labels, out>>
    ELSE DeleteFromCurrentImage("delete_selected", _selected_annotation_id[1])

\* MainWindow._on_annotation_deleted_from_list(annotation_id), with the id of
\* an annotation the list widget shows.
WindowOnAnnotationDeletedFromList ==
    \E i \in 1..Len(_current_annotations) :
        IF IsNone(get_current_image)
        THEN /\ last' = Result("deleted_from_list", 0, 0, FALSE, FALSE)
             /\ arg' = <<>>
             /\ UNCHANGED <<files, _base_path, canvasVars, storeVars, imageVars, _labels, out>>
        ELSE DeleteFromCurrentImage("deleted_from_list", _current_annotations[i].id)

\* A click on the canvas in select mode: mousePressEvent selects the
\* annotation at the point or deselects. (A press in draw mode starts the
\* drag whose annotation_created signal WindowOnAnnotationCreated receives.)
SelectClick ==
    /\ _drawing_mode = "select"
    /\ MousePressEvent

\* MainWindow.__init__: new managers and a new canvas, and the label setup
\* dialog shown on startup, cancelled or accepted with its labels.
InitWindow ==
    /\ InitAnnotationManager(TRUE)
    /\ InitImageManager
    /\ \E dialog \in Opt(DialogLabelSets) :
           _labels = IF IsNone(dialog) THEN <<>> ELSE set_labels(dialog[1])
    /\ InitFiles
    /\ InitImageCanvas([width |-> 8, height |-> 6])
    /\ InitRest

NextWindow ==
    \/ WindowLoadImages
    \/ WindowOnAnnotationCreated
    \/ WindowNextImage
    \/ WindowPreviousImage
    \/ WindowDeleteSelectedAnnotation
    \/ WindowOnAnnotationDeletedFromList
    \/ SetMode
    \/ SelectClick

SpecWindow == InitWindow /\ [][NextWindow]_vars

(***************************************************************************)
(* Properties of the annotation store.                                     *)
(***************************************************************************)
Stored(k) == heap[_annotations[k]]
StoredNext(k) == heap'[_annotations'[k]]

\* C1: the annotation a successful create returns is the one get(a.id) returns
\* right after it, with the box, label and image the call was given; once
\* delete(a.id) has returned true, get(a.id) is not-found; and an operation on
\* another id changes neither what get(a.id) returns nor, for a deleted or
\* never issued id, that it is not-found.
C1_Step ==
    /\ (last'.op = "create" /\ last'.ok) =>
          /\ last'.ret \in DOMAIN _annotations'
          /\ _annotations'[last'.ret] = last'.ret
          /\ StoredNext(last'.ret).id = last'.ret
          /\ StoredNext(last'.ret).bounding_box = arg'.box
          /\ StoredNext(last'.ret).label_id = arg'.label_id
          /\ StoredNext(last'.ret).label_name = arg'.label_name
          /\ StoredNext(last'.ret).image_id = arg'.image_id
    /\ (last'.op = "delete" /\ last'.ok) => last'.id \notin DOMAIN _annotations'
    /\ \A k \in AnnIdArgs :
          /\ (k \in DOMAIN _annotations /\ ~(last'.op \in {"update", "delete"} /\ last'.id = k)) =>
                (k \in DOMAIN _annotations' /\ StoredNext(k) = Stored(k))
          /\ (k \notin DOMAIN _annotations /\ ~(last'.op = "create" /\ last'.ret = k)) =>
                k \notin DOMAIN _annotations'
          /\ (k \notin DOMAIN _annotations /\ k < nextAnnId) => k \notin DOMAIN _annotations'
C1_CreateGetDelete == [][C1_Step]_vars

\* C1 witness: an annotation was created, then deleted, and a later create on
\* another id has succeeded.
C1_Witness ==
    /\ last.op = "create" /\ last.ok
    /\ last.ret = 2
    /\ 1 \notin DOMAIN _annotations

\* C2: validate returns ok exactly when label_id > 0, the label name is not
\* empty and not only whitespace, the box is present and its width and height
\* are both > 0; the store is left as it was.
C2_Condition(a) ==
    /\ a.label_id > 0
    /\ a.label_name # <<>>
    /\ \E i \in 1..Len(a.label_name) : ~IsSpace(a.label_name[i])
    /\ ~IsNone(a.bounding_box)
    /\ a.bounding_box[1].width > 0
    /\ a.bounding_box[1].height > 0
C2_ValidateExact ==
    last.op = "validate" =>
        /\ out[1] = C2_Condition(arg)
        /\ last.ok = out[1]
        /\ _annotations = <<>> /\ heap = <<>>

\* C2 witness: a 1x1 box with a valid label was validated and accepted.
C2_Witness ==
    /\ last.op = "validate" /\ last.ok
    /\ arg.bounding_box = Some(BoundingBox(0, 0, 1, 1))

\* C4 (as claimed): in a validation-enabled store every stored annotation has a
\* box of width > 0 and height > 0.
C4_StoredBoxesPositive ==
    _validation_enabled =>
        \A k \in DOMAIN _annotations :
            /\ ~IsNone(Stored(k).bounding_box)
            /\ Stored(k).bounding_box[1].width > 0
            /\ Stored(k).bounding_box[1].height > 0

\* C5: update on a known id sets the label pair exactly when both label_id and
\* label_name are supplied and leaves both as they were otherwise; a supplied
\* box replaces the stored box, with or without label fields; modified_at is
\* set to the time of the call exactly when the box or the label pair was
\* written, and is left alone otherwise.
C5_Step ==
    (last'.op = "update" /\ last'.ok) =>
        LET old == Stored(last'.id)
            new == StoredNext(last'.id)
            both == ~IsNone(arg'.label_id) /\ ~IsNone(arg'.label_name)
        IN /\ both => (new.label_id = arg'.label_id[1] /\ new.label_name = arg'.label_name[1])
           /\ ~both => (new.label_id = old.label_id /\ new.label_name = old.label_name)
           /\ ~IsNone(arg'.box) => new.bounding_box = arg'.box
           /\ IsNone(arg'.box) => new.bounding_box = old.bounding_box
           /\ (both \/ ~IsNone(arg'.box)) => new.modified_at = clock'
           /\ ~(both \/ ~IsNone(arg'.box)) => (new.modified_at = old.modified_at /\ clock' = clock)
C5_UpdatePairAndBox == [][C5_Step]_vars

\* C5 witness: an update that supplied a box and only a label id went through,
\* at a later time than the annotation's creation.
C5_Witness ==
    /\ last.op = "update" /\ last.ok
    /\ ~IsNone(arg.box) /\ ~IsNone(arg.label_id) /\ IsNone(arg.label_name)
    /\ Stored(last.id).modified_at > Stored(last.id).created_at

\* C6: get, update and delete of an id that is not in the store do not raise,
\* return not-found / false / false, and leave the store as it was.
C6_Step ==
    (last'.op \in {"get", "update", "delete"} /\ last'.id \notin DOMAIN _annotations) =>
        /\ ~last'.ok
        /\ ~last'.raised
        /\ last'.ret = 0
        /\ _annotations' = _annotations
        /\ heap' = heap
C6_UnknownId == [][C6_Step]_vars

\* C6 witness: a second delete of an id that was deleted before returned false.
C6_Witness ==
    /\ last.op = "delete" /\ ~last.ok
    /\ last.id < nextAnnId
    /\ _annotations # <<>>

\* C7: no operation changes the id, image_id or created_at of a stored
\* annotation, and every entry of the store is keyed by the id of the
\* annotation it holds, so no two entries hold the same annotation id.
C7_Step ==
    /\ \A k \in DOMAIN _annotations \cap DOMAIN _annotations' :
          /\ StoredNext(k).id = Stored(k).id
          /\ StoredNext(k).image_id = Stored(k).image_id
          /\ StoredNext(k).created_at = Stored(k).created_at
    /\ \A k \in DOMAIN _annotations' : StoredNext(k).id = k
    /\ \A k1, k2 \in DOMAIN _annotations' :
          StoredNext(k1).id = StoredNext(k2).id => k1 = k2
C7_IdentityFixed == [][C7_Step]_vars

\* C7 witness: an update went through at a later time than the creation, in a
\* store that holds two annotations.
C7_Witness ==
    /\ last.op = "update" /\ last.ok
    /\ Cardinality(DOMAIN _annotations) = 2
    /\ Stored(last.id).modified_at > Stored(last.id).created_at

(***************************************************************************)
(* Properties of the image collection.                                     *)
(***************************************************************************)
\* C9: remove of a present image returns true and sets the cursor to
\* min(old cursor, new count - 1) when images remain and to -1 when none does;
\* remove of an absent id returns false and changes nothing.
C9_Step ==
    last'.op = "remove" =>
        IF last'.id \in DOMAIN _images
        THEN /\ last'.ok
             /\ last'.id \notin DOMAIN _images'
             /\ Len(_image_order') = Len(_image_order) - 1
             /\ _current_index' = IF Len(_image_order') > 0
                                  THEN Min(_current_index, Len(_image_order') - 1)
                                  ELSE -1
        ELSE /\ ~last'.ok
             /\ UNCHANGED <<_images, _image_order, _current_index>>
C9_RemoveClampsCursor == [][C9_Step]_vars

\* C9 witness: in a collection of three images with the cursor on the third,
\* the third was removed and the cursor is on index 1.
C9_Witness ==
    /\ last.op = "remove" /\ last.ok
    /\ last.id = 3
    /\ _image_order = <<1, 2>>
    /\ arg.index = 2
    /\ _current_index = 1

\* C10: next and previous leave the collection alone; on an empty collection
\* they return nothing and the cursor stays -1; at the last index (next) or at
\* index 0 (previous) the cursor stays and the current image is returned;
\* otherwise the cursor moves by exactly +1 (next) or -1 (previous) and the
\* image there is returned.
C10_Step ==
    last'.op \in {"next", "previous"} =>
        /\ UNCHANGED <<_images, _image_order>>
        /\ IF Len(_image_order) = 0
           THEN /\ last'.ret = 0 /\ ~last'.ok
                /\ _current_index = -1 /\ _current_index' = -1
           ELSE /\ last'.op = "next" =>
                     _current_index' = IF _current_index = Len(_image_order) - 1
                                       THEN _current_index
                                       ELSE _current_index + 1
                /\ last'.op = "previous" =>
                     _current_index' = IF _current_index = 0
                                       THEN _current_index
                                       ELSE _current_index - 1
                /\ last'.ok
                /\ last'.ret = _image_order[_current_index' + 1]
C10_NavigationSaturates == [][C10_Step]_vars

\* C10 witness: next was called with the cursor on the last of three images
\* and the cursor is still there.
C10_Witness ==
    /\ last.op = "next" /\ last.ok
    /\ Len(_image_order) = 3
    /\ arg.index = 2
    /\ _current_index = 2

(***************************************************************************)
(* Properties of the main window's flows.                                  *)
(***************************************************************************)
\* C3: when the label and box the handler passes to create fail the store's
\* validation, create raises and the store (its ids and every stored
\* annotation) and every image's annotation list are what they were before;
\* and create raises only then.
C3_Step ==
    (last'.op = "annotation_created" /\ arg' # <<>>) =>
        LET invalid == ~validate_annotation(
                           Annotation(0, arg'.box, arg'.label_id, arg'.label_name,
                                      arg'.image_id, 0, 0))[1]
        IN /\ last'.raised = (_validation_enabled /\ invalid)
           /\ last'.raised =>
                 /\ ~last'.ok
                 /\ _annotations' = _annotations
                 /\ heap' = heap
                 /\ _images' = _images
C3_FailedCreateLeavesState == [][C3_Step]_vars

\* C3 witness: with an annotation already on the current image, a create with
\* an invalid label was refused.
C3_Witness ==
    /\ last.op = "annotation_created" /\ last.raised
    /\ arg.label_id = 0
    /\ Len(_images[last.id].annotations) = 1
    /\ DOMAIN _annotations # {}

\* C8 (as claimed): after remove(image_id) has returned true the store holds
\* no annotation of that image.
C8_RemoveCascades ==
    (last.op = "remove" /\ last.ok) =>
        /\ get_annotations_for_image(last.id) = <<>>
        /\ \A k \in DOMAIN _annotations : Stored(k).image_id # last.id

\* C11: add on an empty collection makes the added image current (cursor 0);
\* add on a non-empty collection appends the image at the end of the order and
\* leaves the cursor and the current image unchanged; either way the id
\* returned is the added image's and the image is stored under the path given.
C11_Step ==
    last'.op = "add" =>
        /\ _image_order' = Append(_image_order, last'.ret)
        /\ last'.ret \notin DOMAIN _images
        /\ DOMAIN _images' = DOMAIN _images \cup {last'.ret}
        /\ \A k \in DOMAIN _images : _images'[k] = _images[k]
        /\ IF Len(_image_order) = 0
           THEN /\ _current_index' = 0
                /\ current_image(_images', _image_order', _current_index') = Some(last'.ret)
           ELSE /\ _current_index' = _current_index
                /\ current_image(_images', _image_order', _current_index')
                       = current_image(_images, _image_order, _current_index)
C11_AddImageCursor == [][C11_Step]_vars

\* C11 witness: a third image was added while the cursor was on the first of
\* two, and the cursor is still on the first.
C11_Witness ==
    /\ last.op = "add"
    /\ _image_order = <<1, 2, 3>>
    /\ last.ret = 3
    /\ arg.index = 0
    /\ _current_index = 0

(***************************************************************************)
(* Properties of the label registry.                                       *)
(***************************************************************************)
\* C12 (as claimed): after every add_label and set_labels no two label ids of
\* the registry map to the same name, and an add_label whose id is already
\* present leaves the registry as it was.
C12_Step ==
    /\ \A i, j \in DOMAIN _labels' : i # j => _labels'[i] # _labels'[j]
    /\ (last'.op = "add_label" /\ last'.id \in DOMAIN _labels) => _labels' = _labels
C12_RegistryUnique == [][C12_Step]_vars

(***************************************************************************)
(* Properties of the canvas's conversions.                                 *)
(***************************************************************************)
\* C13: for every two corner points of a drag, on the displayed image or
\* outside it, and every scale and offset, the box _create_bounding_box
\* returns has 0 <= x <= image width, 0 <= y <= image height, width >= 0,
\* height >= 0, x + width <= image width and y + height <= image height.
C13_BoxInsideImage ==
    last.op = "create_bounding_box" =>
        /\ 0 <= out.box.x /\ out.box.x <= arg.pixmap.width
        /\ 0 <= out.box.y /\ out.box.y <= arg.pixmap.height
        /\ out.box.width >= 0
        /\ out.box.height >= 0
        /\ out.box.x + out.box.width <= arg.pixmap.width
        /\ out.box.y + out.box.height <= arg.pixmap.height

\* C13 witness: an image three times wider than it is shown, a drag from left
\* of the image to right of the widget: the scaled width exceeds the image and
\* the box is cut to the image's width.
C13_Witness ==
    /\ last.op = "create_bounding_box"
    /\ arg.pixmap = QSize(3, 3) /\ arg.size = QSize(1, 1)
    /\ arg.start.x = -1 /\ arg.end.x = MaxWidget + 1
    /\ out.box.x = 0 /\ out.box.width = 3

\* C14 (as claimed): an image point converted to the widget and back is
\* within 1 pixel of the original on each axis.
C14_RoundTripWithinOne ==
    last.op = "round_trip" =>
        /\ Abs(out.image.x - arg.start.x) <= 1
        /\ Abs(out.image.y - arg.start.y) <= 1

\* C14 (amended): with s the canvas's scale factor (image width / displayed
\* width), an image point inside the image converted to the widget and back
\* is, on each axis, not beyond the original and less than s + 1 pixels before
\* it, and less than s pixels before it when s is a whole number (s = 1: the
\* same point; s = 2: within 1 pixel).
C14_Drift(a, b, scale) ==
    /\ b <= a
    /\ IF scale.num % scale.den = 0
       THEN (a - b) * scale.den < scale.num
       ELSE (a - b) * scale.den < scale.num + scale.den
C14_RoundTripWithinScale ==
    last.op = "round_trip" =>
        LET scale == Geometry(arg.pixmap, arg.size).scale_factor
        IN /\ C14_Drift(arg.start.x, out.image.x, scale)
           /\ C14_Drift(arg.start.y, out.image.y, scale)

\* C14 witness: an image shown at a third of its width; the point (2, 2) comes
\* back as (0, 0).
C14_Witness ==
    /\ last.op = "round_trip"
    /\ Geometry(arg.pixmap, arg.size).scale_factor = Scale(3, 1)
    /\ arg.start = QPoint(2, 2)
    /\ out.image = QPoint(0, 0)

(***************************************************************************)
(* Properties of the canvas.                                               *)
(***************************************************************************)
\* C15 (as claimed): a pointer move during a drag in draw mode keeps the drag
\* going and only moves its current point, whatever the size of the box; a
\* left-button release of a drag in draw mode emits annotation_created, with
\* the converted image-space box, if and only if that box has width >=
\* MIN_BOX_SIZE and height >= MIN_BOX_SIZE; and after the release is_drawing
\* is false and the start and current points are cleared.
C15_Large(box) == box.width >= MIN_BOX_SIZE /\ box.height >= MIN_BOX_SIZE
C15_Step ==
    /\ (last'.op = "mouse_move" /\ _is_drawing /\ _drawing_mode = "draw") =>
          /\ _is_drawing'
          /\ _start_point' = _start_point
          /\ _current_point' = Some(arg'.pos)
          /\ emitted' = <<>>
    /\ (last'.op = "mouse_release" /\ arg'.button = "left"
            /\ _is_drawing /\ _drawing_mode = "draw") =>
          LET boxes == _create_bounding_box(CanvasGeometry, _start_point[1],
                                            _current_point[1])
          IN /\ emitted' # <<>> =>
                   /\ Len(emitted') = 1
                   /\ emitted'[1].signal = "annotation_created"
                   /\ emitted'[1].value \in boxes
                   /\ C15_Large(emitted'[1].value)
             /\ emitted' = <<>> => \E box \in boxes : ~C15_Large(box)
             /\ ~_is_drawing'
             /\ _start_point' = None
             /\ _current_point' = None
C15_TwoStageSizeCheck == [][C15_Step]_vars


(***************************************************************************)
(* Properties of the COCO and tabular export and of the COCO import        *)
(* (SpecExport).                                                           *)
(***************************************************************************)
\* The COCO document has been written by the export of arg.images.
CocoWritten == CocoPath \in DOMAIN files /\ files[CocoPath].kind = "json"
CocoDoc == files[CocoPath].data
TotalAnnotations == AnnCount(arg.images, Len(arg.images))

\* C16: the COCO export gives the images the ids 1..N in input order and the
\* annotations the ids 1..M in the order they are met (image by image, then
\* annotation by annotation), without gap or repeat; every exported
\* annotation carries the exported id of its image, the bbox [x, y, width,
\* height] and the area width * height.
C16_SequentialIds ==
    CocoWritten =>
        /\ Len(CocoDoc.images) = Len(arg.images)
        /\ \A i \in 1..Len(arg.images) : CocoDoc.images[i].id = i
        /\ Len(CocoDoc.annotations) = TotalAnnotations
        /\ \A k \in 1..TotalAnnotations : CocoDoc.annotations[k].id = k
        /\ \A i \in 1..Len(arg.images) : \A j \in 1..Len(arg.images[i].annotations) :
               LET entry == CocoDoc.annotations[AnnCount(arg.images, i - 1) + j]
                   box == arg.images[i].annotations[j].bounding_box[1]
               IN /\ entry.image_id = CocoDoc.images[i].id
                  /\ CocoDoc.images[i].file_name = arg.images[i].filename
                  /\ entry.bbox = <<box.x, box.y, box.width, box.height>>
                  /\ entry.area = box.width * box.height

\* Two images were exported, the second one's second annotation as the third
\* entry with the area 12 * 5.
C16_Witness ==
    /\ CocoWritten
    /\ last.op = "export_to_coco"
    /\ Len(arg.images) = 2
    /\ Len(arg.images[1].annotations) = 1
    /\ Len(arg.images[2].annotations) = 2
    /\ CocoDoc.annotations[3].id = 3
    /\ CocoDoc.annotations[3].image_id = 2
    /\ CocoDoc.annotations[3].area = 60

\* C17: the category list of a COCO export is strictly ascending by label
\* id, whatever the order of the annotations, and holds exactly the label ids
\* the exported annotations use.
C17_CategoriesSorted ==
    CocoWritten =>
        LET categories == CocoDoc.categories
        IN /\ \A i \in 1..(Len(categories) - 1) : categories[i].id < categories[i + 1].id
           /\ {categories[i].id : i \in 1..Len(categories)}
                  = {CocoDoc.annotations[k].category_id : k \in 1..Len(CocoDoc.annotations)}

\* The label 2 is met before the label 1, and the categories are 1, 2.
C17_Witness ==
    /\ CocoWritten
    /\ last.op = "export_to_coco"
    /\ Len(CocoDoc.annotations) >= 2
    /\ CocoDoc.annotations[1].category_id = 2
    /\ CocoDoc.annotations[2].category_id = 1
    /\ Len(CocoDoc.categories) = 2
    /\ CocoDoc.categories[1].id = 1
    /\ CocoDoc.categories[2].id = 2

\* C18: the tabular and the COCO export raise on an empty image list and on
\* images without any annotation, and the disk is then as it was: no output
\* file created, none changed.
C18_EmptyExportFails ==
    (/\ last.op \in {"export_to_csv", "export_to_coco"}
     /\ (Len(arg.images) = 0 \/ TotalAnnotations = 0))
    => /\ last.raised
       /\ ~last.ok
       /\ files = Disk(arg.images, arg.layout, arg.old)

\* Images without annotations were exported to the path of an older file.
C18_Witness ==
    /\ last.op = "export_to_csv"
    /\ Len(arg.images) = 2
    /\ TotalAnnotations = 0
    /\ last.raised
    /\ arg.old
    /\ files[CsvPath].kind = "old"

\* C19: a successful tabular export writes the header row and then one row
\* per annotation, image by image and annotation by annotation, each with
\* the image's filename and the annotation's x, y, width, height, label_id
\* and label_name.
C19_CsvRows ==
    (last.op = "export_to_csv" /\ last.ok) =>
        /\ CsvPath \in DOMAIN files
        /\ files[CsvPath].kind = "csv"
        /\ LET rows == files[CsvPath].rows
           IN /\ Len(rows) = 1 + TotalAnnotations
              /\ rows[1] = <<"image_name", "x", "y", "width", "height",
                             "label_id", "label_name">>
              /\ \A i \in 1..Len(arg.images) : \A j \in 1..Len(arg.images[i].annotations) :
                     LET row == rows[1 + AnnCount(arg.images, i - 1) + j]
                         annotation == arg.images[i].annotations[j]
                         box == annotation.bounding_box[1]
                     IN row = <<arg.images[i].filename, Str(box.x), Str(box.y),
                                Str(box.width), Str(box.height),
                                Str(annotation.label_id), annotation.label_name>>

\* Two images with three annotations were written as a header and three
\* rows, the last one of the second image with the width "12".
C19_Witness ==
    /\ last.op = "export_to_csv"
    /\ last.ok
    /\ Len(arg.images) = 2
    /\ Len(arg.images[2].annotations) = 2
    /\ Len(files[CsvPath].rows) = 4
    /\ files[CsvPath].rows[4][1] = arg.images[2].filename
    /\ files[CsvPath].rows[4][4] = <<"1", "2">>

\* The (label_id, x, y, width, height) of an annotation, and how often a list
\* of annotations holds one.
C20_Key(annotation) ==
    <<annotation.label_id, annotation.bounding_box[1].x, annotation.bounding_box[1].y,
      annotation.bounding_box[1].width, annotation.bounding_box[1].height>>
C20_Count(annotations, key) ==
    Cardinality({j \in 1..Len(annotations) : C20_Key(annotations[j]) = key})

\* C20: importing the COCO document of an export of N images with M
\* annotations, every image file being found under the base directory,
\* yields N images with M annotations, the i-th of them with the same
\* multiset of (label_id, x, y, width, height) as the i-th exported image.
C20_RoundTrip ==
    (last.op = "import_from_coco" /\ CocoWritten /\ arg.layout # "missing") =>
        /\ last.ok
        /\ Len(out.images) = Len(arg.images)
        /\ AnnCount(out.images, Len(out.images)) = TotalAnnotations
        /\ \A i \in 1..Len(arg.images) :
               \A key \in {C20_Key(arg.images[i].annotations[j]) :
                              j \in 1..Len(arg.images[i].annotations)}
                          \cup {C20_Key(out.images[i].annotations[j]) :
                                   j \in 1..Len(out.images[i].annotations)} :
                   C20_Count(out.images[i].annotations, key)
                       = C20_Count(arg.images[i].annotations, key)

\* Two images found by the recursive search came back with one and two
\* annotations under new ids, the second image with the same box twice.
C20_Witness ==
    /\ last.op = "import_from_coco"
    /\ last.ok
    /\ arg.layout = "deep"
    /\ Len(arg.images) = 2
    /\ Len(out.images) = 2
    /\ Len(out.images[1].annotations) = 1
    /\ Len(out.images[2].annotations) = 2
    /\ C20_Key(out.images[2].annotations[1]) = C20_Key(out.images[2].annotations[2])
    /\ C20_Key(out.images[1].annotations[1]) # C20_Key(out.images[2].annotations[1])
    /\ out.images[1].id # arg.images[1].id
    /\ out.images[2].annotations[1].id # arg.images[2].annotations[1].id


(***************************************************************************)
(* Properties of the COCO import of a document (SpecImport).               *)
(***************************************************************************)
Imported == last.op = "import_from_coco"
HasRequiredKeys == {"images", "annotations", "categories"} \subseteq DOMAIN arg.doc

\* C21: the import of a document that lacks one of the sections images,
\* annotations, categories fails with the format error (ValueError) and
\* returns nothing, before any file is resolved and any annotation is
\* converted (no identity is generated); a document with the three sections
\* passes the check.
C21_FormatError ==
    Imported =>
        IF HasRequiredKeys
        THEN out.raised # "ValueError"
        ELSE /\ out.raised = "ValueError"
             /\ ~last.ok
             /\ out.images = <<>>
             /\ out.label_map = <<>>
             /\ nextAnnId = 1
             /\ nextImageId = 1

\* A document without categories, with an image whose file is there and an
\* annotation of it, was refused.
C21_Witness ==
    /\ Imported
    /\ "categories" \notin DOMAIN arg.doc
    /\ arg.layout = "flat"
    /\ Len(arg.doc.images) = 1
    /\ arg.doc.images[1].file_name = <<"a.jpg">>
    /\ Len(arg.doc.annotations) = 1
    /\ arg.doc.annotations[1].image_id = arg.doc.images[1].id
    /\ out.raised = "ValueError"

\* The files the three tiers are to choose from for a file name: the file
\* base/file_name, else the file base/<bare name>, else the files of that
\* bare name anywhere under the base directory.
C22_Tiers(file_name) ==
    IF BasePath \o file_name \in DOMAIN files
    THEN {BasePath \o file_name}
    ELSE IF BasePath \o <<file_name[Len(file_name)]>> \in DOMAIN files
    THEN {BasePath \o <<file_name[Len(file_name)]>>}
    ELSE {p \in DOMAIN files :
             /\ Len(p) > Len(BasePath)
             /\ SubSeq(p, 1, Len(BasePath)) = BasePath
             /\ p[Len(p)] = file_name[Len(file_name)]}
C22_Found ==
    SortedSeq({i \in 1..Len(arg.doc.images) : C22_Tiers(arg.doc.images[i].file_name) # {}})

\* C22: the import resolves every image by the tiers in order, the first
\* match winning: base/file_name if it is a file, else base/<bare name> if it
\* is a file, else a file of that bare name found under the base directory.
C22_TiersInOrder ==
    (Imported /\ HasRequiredKeys) =>
        /\ Len(out.images) = Len(C22_Found)
        /\ \A k \in 1..Len(C22_Found) :
               out.images[k].file_path \in C22_Tiers(arg.doc.images[C22_Found[k]].file_name)

\* The images of the document that the import's resolution finds a file for.
C23_Resolved ==
    SortedSeq({i \in 1..Len(arg.doc.images) :
                  resolve_file(files, BasePath, arg.doc.images[i].file_name) # {}})

\* C23: an image that none of the tiers resolves is left out of the result
\* without failing the import; the other images are returned in the order of
\* the document; the label map holds every declared category id with a name
\* declared for it.
C23_UnresolvedDropped ==
    (Imported /\ HasRequiredKeys) =>
        /\ last.ok
        /\ out.raised = ""
        /\ Len(out.images) = Len(C23_Resolved)
        /\ \A k \in 1..Len(C23_Resolved) :
               /\ out.images[k].filename = arg.doc.images[C23_Resolved[k]].file_name
               /\ out.images[k].file_path
                      \in resolve_file(files, BasePath, out.images[k].filename)
        /\ DOMAIN out.label_map
               = {arg.doc.categories[c].id : c \in 1..Len(arg.doc.categories)}
        /\ \A id \in DOMAIN out.label_map :
               \E c \in 1..Len(arg.doc.categories) :
                   /\ arg.doc.categories[c].id = id
                   /\ arg.doc.categories[c].name = out.label_map[id]

\* Of two images the first one has no file and the second one was found by
\* the recursive search; the second one came back, with both categories.
C23_Witness ==
    /\ Imported
    /\ HasRequiredKeys
    /\ arg.layout = "deep"
    /\ Len(arg.doc.images) = 2
    /\ arg.doc.images[1].file_name = <<"a1.jpg">>
    /\ arg.doc.images[2].file_name = <<"a.jpg">>
    /\ Len(arg.doc.categories) = 2
    /\ Len(out.images) = 1
    /\ out.images[1].filename = <<"a.jpg">>
    /\ out.images[1].file_path = <<"data", "more", "a.jpg">>
    /\ DOMAIN out.label_map = {1, 2}

\* C24: every annotation of an image the import returns carries the id of
\* that image as its image_id, and an id that no other imported annotation
\* has.
C24_BackReference ==
    (Imported /\ HasRequiredKeys) =>
        /\ \A i \in 1..Len(out.images) : \A j \in 1..Len(out.images[i].annotations) :
               out.images[i].annotations[j].image_id = out.images[i].id
        /\ \A i, k \in 1..Len(out.images) :
               \A j \in 1..Len(out.images[i].annotations) :
               \A l \in 1..Len(out.images[k].annotations) :
                   (<<i, j>> # <<k, l>>)
                   => out.images[i].annotations[j].id # out.images[k].annotations[l].id


(***************************************************************************)
(* Properties of the bulk load (SpecBulk).                                 *)
(***************************************************************************)
\* The files right in a directory that load: images whose name ends in a
\* supported extension, in lower or in upper case.
C25_Loadable(dir) ==
    {p \in DOMAIN files :
        /\ Len(p) = Len(dir) + 1
        /\ SubSeq(p, 1, Len(dir)) = dir
        /\ files[p].kind = "image"
        /\ \E k \in 1..Len(SUPPORTED_FORMATS) :
               suffix(Chars[p[Len(p)]]) \in {SUPPORTED_FORMATS[k], upper(SUPPORTED_FORMATS[k])}}
RECURSIVE C25_LoadableCount(_, _)
C25_LoadableCount(subdirectories, n) ==
    IF n = 0 THEN 0
    ELSE C25_LoadableCount(subdirectories, n - 1)
         + Cardinality(C25_Loadable(BasePath \o subdirectories[n]))

\* C25: the bulk load skips a file whose load fails and goes on with the
\* files and subdirectories after it: the count returned is the number of
\* files loaded, which is the growth of the collection, every file that loads
\* is in the collection, and the filename of every loaded image is its path
\* relative to the base path.
C25_BulkLoadContinues ==
    (last.op = "load_from_subdirectories") =>
        LET before == Len(arg.order)
            subdirectories == arg.config.subdirectories
            added == SubSeq(_image_order, before + 1, Len(_image_order))
        IN /\ SubSeq(_image_order, 1, before) = arg.order
           /\ last.ret = Len(added)
           /\ last.ret = C25_LoadableCount(subdirectories, Len(subdirectories))
           /\ \A s \in 1..Len(subdirectories) :
                  \A p \in C25_Loadable(BasePath \o subdirectories[s]) :
                      \E k \in 1..Len(added) : _images[added[k]].file_path = p
           /\ \A k \in 1..Len(added) :
                  /\ files[_images[added[k]].file_path].kind = "image"
                  /\ BasePath \o _images[added[k]].filename = _images[added[k]].file_path

\* train/a.jpg does not load; train/a1.jpg and, in the next subdirectory,
\* val/a.jpg were added to a collection of one image.
C25_Witness ==
    /\ last.op = "load_from_subdirectories"
    /\ arg.config.subdirectories = <<<<"train">>, <<"val">>>>
    /\ Len(arg.order) = 1
    /\ <<"data", "train", "a.jpg">> \in DOMAIN files
    /\ files[<<"data", "train", "a.jpg">>].kind = "broken"
    /\ <<"data", "val", "c.jpg", "a.jpg">> \in DOMAIN files
    /\ <<"data", "train", "b.PNG">> \notin DOMAIN files
    /\ last.ret = 2
    /\ Len(_image_order) = 3
    /\ _images[_image_order[2]].filename = <<"train", "a1.jpg">>
    /\ _images[_image_order[3]].filename = <<"val", "a.jpg">>
    /\ _current_index = 0


(***************************************************************************)
(* Further properties of the image collection (SpecNav).                   *)
(***************************************************************************)
\* C26: after any sequence of add, remove, next, previous and goto the cursor
\* is -1 if and only if the collection is empty, and is otherwise an index
\* of the collection, at which get_current_image finds an image.
C26_CursorInRange ==
    /\ (_current_index = -1) <=> (Len(_image_order) = 0)
    /\ Len(_image_order) > 0 =>
           /\ 0 <= _current_index
           /\ _current_index < Len(_image_order)
           /\ ~IsNone(get_current_image)
           /\ get_current_image[1] = _image_order[_current_index + 1]
    /\ Len(_image_order) = 0 => IsNone(get_current_image)

\* goto moved the cursor to the last of three images.
C26_Witness ==
    /\ last.op = "goto" /\ last.ok
    /\ Len(_image_order) = 3
    /\ _current_index = 2
    /\ get_current_image = Some(_image_order[3])

\* The image get_current_image returns after a step.
C27_CurrentAfter == current_image(_images', _image_order', _current_index')
C27_RemovedOther ==
    /\ last'.op = "remove"
    /\ IsNone(get_current_image) \/ last'.id # get_current_image[1]

\* C27: remove(id) of an image that is not the current image leaves the
\* current image as it is.
C27_StepUnchanged == C27_RemovedOther => C27_CurrentAfter = get_current_image
C27_RemoveOtherKeepsCurrent == [][C27_StepUnchanged]_vars

\* C27 as amended: remove(id) of an image that is not the current one leaves
\* the current image as it is when id is absent or sits behind the cursor;
\* when it sits before the cursor the cursor keeps its index, so the image
\* that followed the current one becomes current, and the current image
\* stays only if it was the last one.
C27_StepIndexKept ==
    C27_RemovedOther =>
        IF last'.id \notin DOMAIN _images
        THEN C27_CurrentAfter = get_current_image
        ELSE IF IndexOf(_image_order, last'.id) > _current_index
        THEN C27_CurrentAfter = get_current_image
        ELSE IF _current_index = Len(_image_order) - 1
        THEN C27_CurrentAfter = get_current_image
        ELSE C27_CurrentAfter = Some(_image_order[_current_index + 2])
C27_RemoveOtherKeepsIndex == [][C27_StepIndexKept]_vars

\* With the cursor on the second of three images the first one was removed:
\* the cursor is still 1 and the third image is current.
C27_Witness ==
    /\ last.op = "remove" /\ last.ok
    /\ last.id = 1
    /\ arg.index = 1
    /\ _image_order = <<2, 3>>
    /\ _current_index = 1
    /\ get_current_image = Some(3)

(***************************************************************************)
(* Properties of the main window with its canvas.                          *)
(***************************************************************************)
\* The ids the annotation store returns for an image, and the ids in the
\* image's own list.
StoreIds(image_id) == RangeOf(get_annotations_for_image(image_id))
ListIds(image_id) == {heap[r].id : r \in RangeOf(_images[image_id].annotations)}

\* C28: after any sequence of UI actions, for every image of the collection
\* the annotation ids the store returns for the image's id are the ids in the
\* image's own annotations list.
C28_StoreMatchesLists ==
    \A image_id \in DOMAIN _images : StoreIds(image_id) = ListIds(image_id)

\* C29: the canvas's selected annotation id is none or the id of an
\* annotation in the list the canvas displays.
C29_SelectionDisplayed ==
    \/ IsNone(_selected_annotation_id)
    \/ \E i \in 1..Len(_current_annotations) :
           _current_annotations[i].id = _selected_annotation_id[1]

(***************************************************************************)
(* Properties of the canvas's drag.                                        *)
(***************************************************************************)
\* A point is on the displayed image: inside [offset, offset + displayed
\* size] on both axes, the bounds included.
OnDisplayedImage(point) ==
    /\ ~IsNone(_scaled_pixmap)
    /\ point.x \in _image_offset_x..(_image_offset_x + _scaled_pixmap[1].width)
    /\ point.y \in _image_offset_y..(_image_offset_y + _scaled_pixmap[1].height)

\* The step is a left-button press in draw mode at a point on the image.
DragPress ==
    /\ last'.op = "mouse_press"
    /\ arg'.button = "left"
    /\ _drawing_mode = "draw"
    /\ OnDisplayedImage(arg'.pos)

\* The step starts a drag: the canvas begins to draw, or takes a new start point.
DragStarts ==
    \/ ~_is_drawing /\ _is_drawing'
    \/ ~IsNone(_start_point') /\ _start_point' # _start_point

AnnotationCreatedEmitted(signals) ==
    \E i \in 1..Len(signals) : signals[i].signal = "annotation_created"

\* C30: a drag starts only on a left-button press in draw mode at a point on
\* the displayed image; any other press leaves the drag state as it is; a
\* change of the mode ends a drag in progress; and annotation_created is
\* emitted only by a left-button release that ends a drag in progress in
\* draw mode, so only after such a press with no mode change in between.
C30_DragDiscipline ==
    [][/\ DragStarts => DragPress
       /\ (last'.op = "mouse_press" /\ ~DragPress) => UNCHANGED drawingVars
       /\ last'.op = "set_mode" =>
              ~_is_drawing' /\ IsNone(_start_point') /\ IsNone(_current_point')
       /\ AnnotationCreatedEmitted(emitted') =>
              /\ last'.op = "mouse_release"
              /\ arg'.button = "left"
              /\ _is_drawing /\ ~_is_drawing'
              /\ _drawing_mode = "draw" /\ _drawing_mode' = "draw"
       /\ _is_drawing' => _drawing_mode' = "draw" /\ ~IsNone(_start_point')]_vars

\* A release has ended a drag that began on the image and emitted the box.
C30_Witness ==
    /\ last.op = "mouse_release"
    /\ AnnotationCreatedEmitted(emitted)
    /\ ~_is_drawing
    /\ _drawing_mode = "draw"

====
